---- MODULE Spec2Model ----
(***************************************************************************)
(* Model of the Solana token creation API: src/src/api-server.ts (the HTTP *)
(* handlers) and src/src/create-token.ts (createTokenFromMetadataUrl and   *)
(* revokeTokenAuthorities).                                                *)
(*                                                                         *)
(* Text is a sequence of tokens: a token is a piece of text that the       *)
(* substring tests of the code never split, so String.includes is the      *)
(* search for a contiguous subsequence.  A JavaScript value is a record    *)
(* whose field t is the value's kind.  Every handler runs from one await   *)
(* to the next in one step, as on the single-threaded event loop; the      *)
(* result of each awaited call (network, file system, ledger RPC) is drawn *)
(* from the outcomes the collaborator can produce.                         *)
(***************************************************************************)
EXTENDS Integers, Sequences, FiniteSets, TLC

VARIABLES
    pc,         \* per connection: the await the handler is suspended at
    request,    \* per connection: the request being handled
    response,   \* per connection: the response sent, or NoResponse
    locals,     \* per connection: local variables that live across awaits
    calls,      \* per connection: how often each collaborator was invoked
    seen,       \* per connection: what each collaborator answered
    ledger,     \* mint accounts of the chain, by address
    metadataAccounts, \* addresses that carry a Metaplex metadata account
    generated,  \* number of key pairs drawn by Keypair.generate
    NODE_ENV,   \* process.env.NODE_ENV
    walletFile, \* what reading the wallet file yields
    history,    \* the last call of /revoke-authorities a client completed
    client      \* the state of a script of scripts/api-utils.js that runs

vars == <<pc, request, response, locals, calls, seen, ledger,
          metadataAccounts, generated, NODE_ENV, walletFile, history, client>>

(***************************************************************************)
(* Bounds of the model: the connections whose handlers are in flight at    *)
(* once (they interleave at their awaits), the key pairs generated, and    *)
(* the largest maxRetries passed to retryOperation.                        *)
(***************************************************************************)
MaxInFlight == 1
MaxMints == 2
MaxRetries == 3

Slots == 1..MaxInFlight

(***************************************************************************)
(* Text.                                                                   *)
(***************************************************************************)
\* String.prototype.includes
Includes(s, p) ==
    \E i \in 1..(Len(s) - Len(p) + 1) : SubSeq(s, i, i + Len(p) - 1) = p

WhiteSpace == {" ", "\t", "\n"}

\* String.prototype.trim
RECURSIVE TrimStart(_)
TrimStart(s) ==
    IF s # <<>> /\ Head(s) \in WhiteSpace THEN TrimStart(Tail(s)) ELSE s

RECURSIVE TrimEnd(_)
TrimEnd(s) ==
    IF s # <<>> /\ s[Len(s)] \in WhiteSpace
    THEN TrimEnd(SubSeq(s, 1, Len(s) - 1)) ELSE s

Trim(s) == TrimEnd(TrimStart(s))

(***************************************************************************)
(* JavaScript values.                                                      *)
(***************************************************************************)
Undefined == [t |-> "undefined"]
Null == [t |-> "null"]
Bool(b) == [t |-> "boolean", b |-> b]
Num(n) == [t |-> "number", n |-> n]
Str(s) == [t |-> "string", s |-> s]
Obj(o) == [t |-> "object", o |-> o]
Arr == [t |-> "array"]

\* typeof v
TypeOf(v) ==
    CASE v.t = "undefined" -> "undefined"
      [] v.t = "null" -> "object"
      [] v.t = "array" -> "object"
      [] OTHER -> v.t

\* !v
Falsy(v) ==
    \/ v.t \in {"undefined", "null"}
    \/ v.t = "boolean" /\ ~v.b
    \/ v.t = "number" /\ v.n = 0
    \/ v.t = "string" /\ v.s = <<>>

\* v.k for a value that is neither null nor undefined
Get(v, k) ==
    IF v.t = "object" /\ k \in DOMAIN v.o THEN v.o[k] ELSE Undefined

\* a ?? d
Coalesce(a, d) == IF a.t \in {"undefined", "null"} THEN d ELSE a

\* A thrown Error object, and a thrown value that is no Error.
Error(name, message) == [t |-> "error", name |-> name, message |-> message]
NonError == [t |-> "thrown", s |-> <<"rejected">>]

(***************************************************************************)
(* new URL(urlString), without a base: the WHATWG URL parser on tokens.    *)
(* Leading and trailing whitespace is stripped; a scheme is a leading      *)
(* token of scheme characters followed by ":"; the scheme is lower-cased;  *)
(* a special scheme (http, https, ftp, ...) needs a non-empty host after   *)
(* any run of slashes; any other scheme takes an opaque path; a string     *)
(* without a scheme is relative and does not parse without a base.         *)
(***************************************************************************)
SchemeTokens ==
    {"http", "https", "HTTP", "ftp", "mailto", "example.com", "not-a-url"}
SlashTokens == {"/", "//", "\\"}
SpecialSchemes == {"http", "https", "ftp", "ws", "wss", "file"}

\* ASCII lower case of a scheme token
ToLowerCase(tok) == IF tok = "HTTP" THEN "http" ELSE tok

RECURSIVE SkipSlashes(_)
SkipSlashes(s) ==
    IF s # <<>> /\ Head(s) \in SlashTokens THEN SkipSlashes(Tail(s)) ELSE s

ParseFailure == [ok |-> FALSE, protocol |-> <<>>]

ParseURL(urlString) ==
    LET input == Trim(urlString) IN
    IF Len(input) < 2 \/ input[1] \notin SchemeTokens \/ input[2] # ":"
    THEN ParseFailure
    ELSE LET scheme == ToLowerCase(input[1])
             rest == SubSeq(input, 3, Len(input))
         IN  IF scheme \in SpecialSchemes /\ scheme # "file"
                /\ ( SkipSlashes(rest) = <<>>
                     \/ Head(SkipSlashes(rest)) \in {"?", "#", ":"} )
             THEN ParseFailure
             ELSE [ok |-> TRUE, protocol |-> <<scheme, ":">>]

\* A variant that accepts whatever parses, whatever the protocol.
isValidUrlAnyProtocol(urlString) == ParseURL(urlString).ok

isValidUrl(urlString) ==
    LET url == ParseURL(urlString) IN
    IF ~url.ok THEN FALSE
    ELSE url.protocol = <<"http", ":">> \/ url.protocol = <<"https", ":">>

(***************************************************************************)
(* validateMetadata.  The result is "true", "false", or "TypeError" when   *)
(* the property read metadata.name is applied to null.                     *)
(***************************************************************************)
RequiredFields == <<"name", "symbol", "description", "image">>

\* A variant that forgets to trim before comparing with ''.
validateMetadataNoTrim(metadata) ==
    IF TypeOf(metadata) # "object" THEN "false"
    ELSE IF metadata.t = "null" THEN "TypeError"
    ELSE IF \A i \in 1..4 :
               /\ TypeOf(Get(metadata, RequiredFields[i])) = "string"
               /\ Get(metadata, RequiredFields[i]).s # <<>>
         THEN "true" ELSE "false"

validateMetadata(metadata) ==
    IF TypeOf(metadata) # "object" THEN "false"
    ELSE IF metadata.t = "null" THEN "TypeError"
    ELSE IF /\ \A i \in 1..4 :
                  TypeOf(Get(metadata, RequiredFields[i])) = "string"
            /\ \A i \in 1..4 :
                  Trim(Get(metadata, RequiredFields[i]).s) # <<>>
         THEN "true" ELSE "false"

(***************************************************************************)
(* What the collaborators can answer.                                      *)
(***************************************************************************)
\* fs.readFileSync + JSON.parse + Keypair.fromSecretKey on the wallet file
WalletFiles == {"keypair", "ENOENT", "EACCES", "malformed", "badKey"}

WalletPath == "./sM1hvmgLNhyjEGphU67RpcKBACghwoo3NUPGMvUbEF7.json"

WalletError(w) ==
    CASE w = "ENOENT" ->
           Error("Error", <<"ENOENT: no such file or directory, open '",
                            WalletPath, "'">>)
      [] w = "EACCES" ->
           Error("Error", <<"EACCES: permission denied, open '",
                            WalletPath, "'">>)
      [] w = "malformed" ->
           Error("SyntaxError", <<"Unexpected token o in ", "JSON",
                                  " at position 1">>)
      [] w = "badKey" -> Error("Error", <<"bad secret key size">>)

\* The public key of the wallet, a key the server does not hold, and the
\* value of an authority that has been revoked (null).
WalletKey == "sM1hvmgLNhyjEGphU67RpcKBACghwoo3NUPGMvUbEF7"
ForeignKey == "ForeignAuthority"
NoKey == ""

\* Accounts of the chain that the server did not create: a mint whose
\* authorities belong to somebody else, a mint of which the wallet kept only
\* the freeze authority, and an account that is no token mint.
ForeignMint == "ForeignMint"
SharedMint == "SharedMint"
SystemAccount == "SystemAccount"
ExternalAddresses == {ForeignMint, SharedMint, SystemAccount}

\* The values a request body carries as metadataUrl.
HttpUrlStrings ==
    { <<"https", ":", "//", "example.com", "/", "metadata.json">>,
      <<"HTTP", ":", "//", "example.com">> }

OtherStrings ==
    { <<"not-a-url">>,
      <<"ftp", ":", "//", "example.com", "/", "metadata.json">>,
      <<"mailto", ":", "someone">>,
      <<"//", "example.com", "/", "metadata.json">>,
      <<"example.com", "/", "metadata.json">>,
      <<"http", ":", "//">>,
      <<" ">> }

MetadataUrlValues ==
    {Undefined, Null, Str(<<>>), Num(0), Num(123), Bool(FALSE), Bool(TRUE),
     Obj(<<>>), Arr}
    \cup {Str(u) : u \in HttpUrlStrings \cup OtherStrings}

\* The answers of the metadata server to the GET.
HttpStatuses ==
    { [status |-> 200, statusText |-> "OK"],
      [status |-> 404, statusText |-> "Not Found"],
      [status |-> 503, statusText |-> "Service Unavailable"] }

NetworkReasons == {"getaddrinfo ENOTFOUND example.com", "connect ECONNREFUSED"}

\* The JSON documents the metadata server can serve.
GoodDocument ==
    Obj([name |-> Str(<<"Token">>), symbol |-> Str(<<"TKN">>),
         description |-> Str(<<"A", " ", "token">>),
         image |-> Str(<<"https://example.com/image.png">>)])

ExtendedDocument ==
    Obj([name |-> Str(<<"Token">>), symbol |-> Str(<<"TKN">>),
         description |-> Str(<<" ", "A", " ", "token", "\n">>),
         image |-> Str(<<"https://example.com/image.png">>),
         twitter |-> Str(<<"https://twitter.com/token">>),
         decimals |-> Num(9)])

GoodDocuments == {GoodDocument, ExtendedDocument}

BadFieldValues == {Undefined, Null, Num(7), Str(<<>>), Str(<<" ", "\t">>)}

BadDocuments ==
    { Obj([GoodDocument.o EXCEPT ![RequiredFields[i]] = v]) :
        i \in 1..4, v \in BadFieldValues }
    \cup {Null, Arr, Num(5), Str(<<"Token">>), Bool(TRUE), Obj(<<>>)}

Documents == GoodDocuments \cup BadDocuments

\* JSON.parse failures of V8 on the response body
JsonSyntaxErrors ==
    { <<"Unexpected token < in ", "JSON", " at position 0">>,
      <<"Unexpected end of ", "JSON", " input">> }

\* Failures the ledger SDKs (web3.js, spl-token, umi) report.
SdkFailures ==
    { Error("SendTransactionError",
            <<"failed to send transaction: ",
              "Attempt to debit an account but found no record of a prior credit.">>),
      Error("SyntaxError",
            <<"Unexpected token < in ", "JSON", " at position 0">>),
      NonError }

(***************************************************************************)
(* Messages the code builds.                                               *)
(***************************************************************************)
\* node-fetch: the request produced no response.  The message quotes the
\* URL of the request; it is kept as the text that was passed to fetch.
FetchErrorRequest(url, reason) ==
    Error("FetchError",
          <<"request to ">> \o url \o <<" failed, reason: ", reason>>)

\* node-fetch: Body.json() could not parse the body
FetchErrorInvalidJson(url, syntaxMessage) ==
    Error("FetchError",
          <<"invalid json response body at ">> \o url \o <<" reason: ">>
              \o syntaxMessage)

\* A variant that drops the status of the metadata server.
FailedToFetchNoStatus(status, statusText) ==
    Error("Error", <<"Failed to fetch metadata">>)

FailedToFetch(status, statusText) ==
    Error("Error", <<"Failed to fetch metadata", ": ", ToString(status), " ",
                     statusText>>)

InvalidMetadata ==
    Error("Error", <<"Invalid metadata",
                     ": missing required fields (name, symbol, description, image)">>)

\* metadata.name read on null
NullPropertyRead ==
    Error("TypeError", <<"Cannot read properties of null (reading 'name')">>)

\* The n-th address drawn by Keypair.generate, in base 58.
\* A variant in which every generated key pair is the first one.
MintAddressReused(n) == "Mint" \o ToString(1)

\* The address of the n-th key pair of Keypair.generate()
MintAddress(n) == "Mint" \o ToString(n)

\* A variant that links the transaction page instead of the address page.
ExplorerUrlOfTx(mintAddressString) ==
    <<"https://explorer.solana.com/tx/", mintAddressString,
      "?cluster=devnet">>

ExplorerUrl(mintAddressString) ==
    <<"https://explorer.solana.com/address/", mintAddressString,
      "?cluster=devnet">>

(***************************************************************************)
(* State of a connection.                                                  *)
(***************************************************************************)
NoRequest == [route |-> "none"]
NoResponse == [status |-> 0]
NoLocals == [route |-> "none"]
NoCalls ==
    [fetch |-> 0, json |-> 0, createMint |-> 0, createV1 |-> 0,
     getParsedAccountInfo |-> 0, revokeTokenAuthorities |-> 0,
     sendAndConfirmTransaction |-> 0]
NoHistory == [body |-> "-"]
\* No script of scripts/api-utils.js runs.
NoClient == [pc |-> "none"]

NoAccount == [kind |-> "none"]
\* No account has been read, or met by a transaction, yet.
NotRead == [kind |-> "-"]

NothingSeen ==
    [wallet |-> "-", fetch |-> [k |-> "-"], body |-> "-", document |-> Undefined,
     createMint |-> "-", createV1 |-> "-", getParsedAccountInfo |-> "-",
     mintData |-> NotRead, transaction |-> "-", before |-> NotRead]

RawAccount == [kind |-> "raw"]
\* A variant in which a mint is created without a freeze authority.
MintAccountNoFreeze(mintAuthority, freezeAuthority) ==
    [kind |-> "mint", mintAuthority |-> mintAuthority,
     freezeAuthority |-> NoKey, decimals |-> 9]

MintAccount(mintAuthority, freezeAuthority) ==
    [kind |-> "mint", mintAuthority |-> mintAuthority,
     freezeAuthority |-> freezeAuthority, decimals |-> 9]

Addresses == {MintAddress(n) : n \in 1..MaxMints}

Init ==
    /\ pc = [s \in Slots |-> "idle"]
    /\ request = [s \in Slots |-> NoRequest]
    /\ response = [s \in Slots |-> NoResponse]
    /\ locals = [s \in Slots |-> NoLocals]
    /\ calls = [s \in Slots |-> NoCalls]
    /\ seen = [s \in Slots |-> NothingSeen]
    /\ ledger = [a \in Addresses \cup ExternalAddresses |->
                   CASE a = ForeignMint -> MintAccount(ForeignKey, ForeignKey)
                     [] a = SharedMint -> MintAccount(ForeignKey, WalletKey)
                     [] a = SystemAccount -> RawAccount
                     [] OTHER -> NoAccount]
    /\ metadataAccounts = {}
    /\ generated = 0
    /\ NODE_ENV \in {"development", "production"}
    /\ walletFile \in WalletFiles
    /\ history = NoHistory
    /\ client = NoClient

\* A connection carries a new request once the previous one is closed.
Free(s) == pc[s] = "idle"

\* The response of one connection is read, and the connection closed, before
\* another handler sends its response: what a request left behind is the
\* ledger, never the response of another request.
MaySend(s) == \A o \in DOMAIN pc \ {s} : pc[o] # "done"

\* res.status(status).json(body)
Send(s, status, body) ==
    /\ pc' = [pc EXCEPT ![s] = "done"]
    /\ response' = [response EXCEPT ![s] = [status |-> status, body |-> body]]

\* The connection is closed and nothing of the request remains.
Close(s) ==
    /\ pc[s] = "done"
    /\ pc' = [pc EXCEPT ![s] = "idle"]
    /\ request' = [request EXCEPT ![s] = NoRequest]
    /\ response' = [response EXCEPT ![s] = NoResponse]
    /\ locals' = [locals EXCEPT ![s] = NoLocals]
    /\ calls' = [calls EXCEPT ![s] = NoCalls]
    /\ seen' = [seen EXCEPT ![s] = NothingSeen]
    /\ UNCHANGED <<ledger, metadataAccounts, generated, NODE_ENV,
                   walletFile, history, client>>

\* A variant that names the field message.
ErrorResponseMessageOnly(error) == [message |-> error]

\* { success: false, error } as ErrorResponse
ErrorResponse(error) == [success |-> FALSE, error |-> error]

\* error.stack, or String(error)
Stack(error) ==
    IF error.t = "error" THEN <<"stack of ", error.name>> ELSE error.s

(***************************************************************************)
(* POST /create-token: the catch block of the handler.                     *)
(***************************************************************************)
\* A variant without the branch for messages that mention JSON.
createTokenStatusCodeNoJson(error) ==
    IF error.t # "error" THEN 500
    ELSE IF Includes(error.message, <<"Failed to fetch metadata">>) THEN 400
    ELSE IF Includes(error.message, <<"Invalid metadata">>) THEN 400
    ELSE 500

createTokenStatusCode(error) ==
    IF error.t # "error" THEN 500
    ELSE IF Includes(error.message, <<"Failed to fetch metadata">>) THEN 400
    ELSE IF Includes(error.message, <<"Invalid metadata">>) THEN 400
    ELSE IF Includes(error.message, <<"JSON">>) THEN 400
    ELSE 500

\* A variant that starts over at the fetch instead of answering.
createTokenCatchResuming(s, error) ==
    /\ pc' = [pc EXCEPT ![s] = "fetch"]
    /\ UNCHANGED response

createTokenCatch(s, error) ==
    Send(s, createTokenStatusCode(error),
         [success |-> FALSE,
          error |-> IF error.t = "error" THEN error.message
                    ELSE <<"An unexpected error occurred">>,
          details |-> IF NODE_ENV = "development" THEN Str(Stack(error))
                      ELSE Undefined])

(***************************************************************************)
(* POST /create-token, from the arrival of the request to the first await: *)
(* the validation of the body, then in createTokenFromMetadataUrl the      *)
(* loading of the wallet and the call of fetch.                            *)
(***************************************************************************)
CreateToken(s, metadataUrl) ==
    /\ Free(s)
    /\ request' = [request EXCEPT ![s] =
                     [route |-> "POST /create-token",
                      body |-> [metadataUrl |-> metadataUrl]]]
    /\ UNCHANGED <<ledger, metadataAccounts, generated, NODE_ENV,
                   walletFile, history, client>>
    /\ IF Falsy(metadataUrl) THEN
           /\ MaySend(s)
           /\ Send(s, 400, ErrorResponse(
                  <<"Missing required parameter: metadataUrl">>))
           /\ locals' = [locals EXCEPT ![s] = NoLocals]
           /\ calls' = [calls EXCEPT ![s] = NoCalls]
           /\ seen' = [seen EXCEPT ![s] = NothingSeen]
       ELSE IF TypeOf(metadataUrl) # "string" THEN
           /\ MaySend(s)
           /\ Send(s, 400, ErrorResponse(<<"metadataUrl must be a string">>))
           /\ locals' = [locals EXCEPT ![s] = NoLocals]
           /\ calls' = [calls EXCEPT ![s] = NoCalls]
           /\ seen' = [seen EXCEPT ![s] = NothingSeen]
       ELSE IF ~isValidUrl(metadataUrl.s) THEN
           /\ MaySend(s)
           /\ Send(s, 400, ErrorResponse(
                  <<"Invalid URL format. URL must start with http:// or https://">>))
           /\ locals' = [locals EXCEPT ![s] = NoLocals]
           /\ calls' = [calls EXCEPT ![s] = NoCalls]
           /\ seen' = [seen EXCEPT ![s] = NothingSeen]
       ELSE IF walletFile # "keypair" THEN
           /\ MaySend(s)
           /\ createTokenCatch(s, WalletError(walletFile))
           /\ locals' = [locals EXCEPT ![s] =
                           [route |-> "create", metadataUrl |-> metadataUrl.s,
                            mint |-> "", name |-> <<>>, symbol |-> <<>>]]
           /\ calls' = [calls EXCEPT ![s] = NoCalls]
           /\ seen' = [seen EXCEPT ![s] =
                         [NothingSeen EXCEPT !.wallet = walletFile]]
       ELSE
           /\ pc' = [pc EXCEPT ![s] = "fetch"]
           /\ response' = [response EXCEPT ![s] = NoResponse]
           /\ locals' = [locals EXCEPT ![s] =
                           [route |-> "create", metadataUrl |-> metadataUrl.s,
                            mint |-> "", name |-> <<>>, symbol |-> <<>>]]
           /\ calls' = [calls EXCEPT ![s] = [NoCalls EXCEPT !.fetch = 1]]
           /\ seen' = [seen EXCEPT ![s] =
                         [NothingSeen EXCEPT !.wallet = walletFile]]

(***************************************************************************)
(* await fetch(metadataUrl) settles: no response at all, or a response;    *)
(* on a 2xx response the body is requested with response.json().           *)
(***************************************************************************)
FetchFails(s, reason) ==
    /\ pc[s] = "fetch"
    /\ MaySend(s)
    /\ seen' = [seen EXCEPT ![s].fetch = [k |-> "network"]]
    /\ createTokenCatch(s, FetchErrorRequest(locals[s].metadataUrl, reason))
    /\ UNCHANGED <<request, locals, calls, ledger, metadataAccounts,
                   generated, NODE_ENV, walletFile, history, client>>

FetchResponds(s, http) ==
    /\ pc[s] = "fetch"
    /\ seen' = [seen EXCEPT ![s].fetch =
                  [k |-> "response", status |-> http.status,
                   statusText |-> http.statusText]]
    /\ IF http.status \notin 200..299 THEN
           /\ MaySend(s)
           /\ createTokenCatch(s, FailedToFetch(http.status, http.statusText))
           /\ UNCHANGED calls
       ELSE
           /\ pc' = [pc EXCEPT ![s] = "json"]
           /\ calls' = [calls EXCEPT ![s].json = @ + 1]
           /\ UNCHANGED response
    /\ UNCHANGED <<request, locals, ledger, metadataAccounts, generated,
                   NODE_ENV, walletFile, history, client>>

(***************************************************************************)
(* await response.json() settles: the body does not parse, or it is a JSON *)
(* value, which validateMetadata accepts or not; for an accepted document  *)
(* a key pair is generated and createMint is called.                       *)
(***************************************************************************)
JsonFails(s, syntaxMessage) ==
    /\ pc[s] = "json"
    /\ MaySend(s)
    /\ seen' = [seen EXCEPT ![s].body = "unparsable"]
    /\ createTokenCatch(s, FetchErrorInvalidJson(locals[s].metadataUrl,
                                                 syntaxMessage))
    /\ UNCHANGED <<request, locals, calls, ledger, metadataAccounts,
                   generated, NODE_ENV, walletFile, history, client>>

JsonParsed(s, metadata) ==
    /\ pc[s] = "json"
    /\ IF validateMetadata(metadata) = "TypeError" THEN
           /\ MaySend(s)
           /\ createTokenCatch(s, NullPropertyRead)
           /\ seen' = [seen EXCEPT ![s].body = "rejected",
                                    ![s].document = metadata]
           /\ UNCHANGED <<locals, calls, generated>>
       ELSE IF validateMetadata(metadata) = "false" THEN
           /\ MaySend(s)
           /\ createTokenCatch(s, InvalidMetadata)
           /\ seen' = [seen EXCEPT ![s].body = "rejected",
                                    ![s].document = metadata]
           /\ UNCHANGED <<locals, calls, generated>>
       ELSE
           /\ generated < MaxMints
           /\ generated' = generated + 1
           /\ seen' = [seen EXCEPT ![s].body = "accepted",
                                    ![s].document = metadata]
           /\ locals' = [locals EXCEPT
                           ![s].mint = MintAddress(generated + 1),
                           ![s].name = metadata.o.name.s,
                           ![s].symbol = metadata.o.symbol.s]
           /\ calls' = [calls EXCEPT ![s].createMint = @ + 1]
           /\ pc' = [pc EXCEPT ![s] = "createMint"]
           /\ UNCHANGED response
    /\ UNCHANGED <<request, ledger, metadataAccounts, NODE_ENV,
                   walletFile, history, client>>

(***************************************************************************)
(* await createMint(...) settles: the mint account exists, with the wallet *)
(* as mint and freeze authority, and createV1(...).sendAndConfirm is       *)
(* called; or the SDK reports a failure.                                   *)
(***************************************************************************)
CreateMintSucceeds(s) ==
    /\ pc[s] = "createMint"
    /\ ledger' = [ledger EXCEPT ![locals[s].mint] =
                    MintAccount(WalletKey, WalletKey)]
    /\ seen' = [seen EXCEPT ![s].createMint = "ok"]
    /\ calls' = [calls EXCEPT ![s].createV1 = @ + 1]
    /\ pc' = [pc EXCEPT ![s] = "createV1"]
    /\ UNCHANGED <<request, response, locals, metadataAccounts, generated,
                   NODE_ENV, walletFile, history, client>>

CreateMintFails(s, failure) ==
    /\ pc[s] = "createMint"
    /\ MaySend(s)
    /\ seen' = [seen EXCEPT ![s].createMint = "failed"]
    /\ createTokenCatch(s, failure)
    /\ UNCHANGED <<request, locals, calls, ledger, metadataAccounts,
                   generated, NODE_ENV, walletFile, history, client>>

(***************************************************************************)
(* await createMetadataIx.sendAndConfirm(umi) settles; on success the mint *)
(* account is read back with connection.getParsedAccountInfo.              *)
(***************************************************************************)
CreateV1Succeeds(s) ==
    /\ pc[s] = "createV1"
    /\ metadataAccounts' = metadataAccounts \cup {locals[s].mint}
    /\ seen' = [seen EXCEPT ![s].createV1 = "ok"]
    /\ calls' = [calls EXCEPT ![s].getParsedAccountInfo = @ + 1]
    /\ pc' = [pc EXCEPT ![s] = "getParsedAccountInfo"]
    /\ UNCHANGED <<request, response, locals, ledger, generated, NODE_ENV,
                   walletFile, history, client>>

CreateV1Fails(s, failure) ==
    /\ pc[s] = "createV1"
    /\ MaySend(s)
    /\ seen' = [seen EXCEPT ![s].createV1 = "failed"]
    /\ createTokenCatch(s, failure)
    /\ UNCHANGED <<request, locals, calls, ledger, metadataAccounts,
                   generated, NODE_ENV, walletFile, history, client>>

(***************************************************************************)
(* await connection.getParsedAccountInfo(mintAddress) settles: the account *)
(* is logged and the result returned, which the handler sends with 200; or *)
(* the RPC call fails.                                                     *)
(***************************************************************************)
TokenCreationResult(mintAddressString) ==
    [mintAddress |-> <<mintAddressString>>,
     transactionSignature |-> <<"token-created-with-standard-method">>,
     explorerUrl |-> ExplorerUrl(mintAddressString)]

MintInfoRead(s) ==
    /\ pc[s] = "getParsedAccountInfo"
    /\ MaySend(s)
    /\ seen' = [seen EXCEPT ![s].getParsedAccountInfo = "ok"]
    /\ Send(s, 200, [success |-> TRUE,
                     data |-> TokenCreationResult(locals[s].mint)])
    /\ UNCHANGED <<request, locals, calls, ledger, metadataAccounts,
                   generated, NODE_ENV, walletFile, history, client>>

MintInfoFails(s, failure) ==
    /\ pc[s] = "getParsedAccountInfo"
    /\ MaySend(s)
    /\ seen' = [seen EXCEPT ![s].getParsedAccountInfo = "failed"]
    /\ createTokenCatch(s, failure)
    /\ UNCHANGED <<request, locals, calls, ledger, metadataAccounts,
                   generated, NODE_ENV, walletFile, history, client>>

Next ==
    \/ \E s \in Slots, v \in MetadataUrlValues : CreateToken(s, v)
    \/ \E s \in Slots, r \in NetworkReasons : FetchFails(s, r)
    \/ \E s \in Slots, h \in HttpStatuses : FetchResponds(s, h)
    \/ \E s \in Slots, m \in JsonSyntaxErrors : JsonFails(s, m)
    \/ \E s \in Slots, d \in Documents : JsonParsed(s, d)
    \/ \E s \in Slots : CreateMintSucceeds(s)
    \/ \E s \in Slots, f \in SdkFailures : CreateMintFails(s, f)
    \/ \E s \in Slots : CreateV1Succeeds(s)
    \/ \E s \in Slots, f \in SdkFailures : CreateV1Fails(s, f)
    \/ \E s \in Slots : MintInfoRead(s)
    \/ \E s \in Slots, f \in SdkFailures : MintInfoFails(s, f)
    \/ \E s \in Slots : Close(s)

Spec == Init /\ [][Next]_vars

(***************************************************************************)
(* POST /revoke-authorities.                                               *)
(***************************************************************************)
\* The values a request body carries as mintAddress and as the two flags.
\* The addresses are those of the external accounts, of the mints created
\* so far and of the next key pair, which has no account yet.
KnownAddresses ==
    {a \in Addresses : \E n \in 1..(generated + 1) : a = MintAddress(n)}
    \cup ExternalAddresses

MintAddressValues ==
    {Undefined, Num(5), Str(<<>>), Str(<<"not-base58!">>)}
    \cup {Str(<<a>>) : a \in KnownAddresses}

FlagValues == {Undefined, Bool(TRUE), Bool(FALSE), Null}

\* new PublicKey(mintAddress) accepts the base-58 text of 32 bytes.
IsPublicKey(text) ==
    Len(text) = 1 /\ text[1] \in Addresses \cup ExternalAddresses

InvalidPublicKey == Error("Error", <<"Invalid public key input">>)
NoMintInformation == Error("Error", <<"Could not fetch mint information">>)

\* The ledger refuses an instruction whose signer is not the authority.
OwnerMismatch ==
    Error("SendTransactionError",
          <<"failed to send transaction: ", "custom program error: 0x4">>)

\* A variant with || in place of ??: false counts as not supplied.
RevokeOptionsWithOr(body) ==
    [revokeMintAuthority |->
         IF Falsy(body.revokeMintAuthority) THEN TRUE
         ELSE body.revokeMintAuthority.b,
     revokeFreezeAuthority |->
         IF Falsy(body.revokeFreezeAuthority) THEN TRUE
         ELSE body.revokeFreezeAuthority.b]

\* const options = { revokeMintAuthority: revokeMintAuthority ?? true, ... }
RevokeOptions(body) ==
    [revokeMintAuthority |->
         Coalesce(body.revokeMintAuthority, Bool(TRUE)).b,
     revokeFreezeAuthority |->
         Coalesce(body.revokeFreezeAuthority, Bool(TRUE)).b]

\* A variant that hides what a thrown value that is no Error says.
MessageOfErrorOnly(error) ==
    IF error.t = "error" THEN error.message
    ELSE <<"An unexpected error occurred">>

\* error instanceof Error ? error.message : String(error)
MessageOf(error) == IF error.t = "error" THEN error.message ELSE error.s

\* A variant whose catch block rethrows, as the one of
\* createTokenFromMetadataUrl does.
revokeTokenAuthoritiesCatchRethrows(error) == [k |-> "threw", error |-> error]

\* revokeTokenAuthorities: catch (error) { return { success: false, ... } }
revokeTokenAuthoritiesCatch(error) ==
    [k |-> "returned",
     value |-> [success |-> FALSE, error |-> MessageOf(error)]]

\* revokeTokenAuthorities: return { success: true, signatures, revoked }
revokeTokenAuthoritiesReturn(signatures, revoked) ==
    [k |-> "returned",
     value |-> [success |-> TRUE, signatures |-> signatures,
                revoked |-> revoked]]

\* The handler once `await revokeTokenAuthorities(...)` has settled: its
\* catch block for a rejection, else the branch for result.success or the
\* one for a failure.
RevokeSettled(s, outcome) ==
    IF outcome.k = "threw"
    THEN Send(s, 500, ErrorResponse(
             IF outcome.error.t = "error" THEN outcome.error.message
             ELSE <<"An unexpected error occurred">>))
    ELSE IF outcome.value.success
    THEN Send(s, 200,
              [success |-> TRUE,
               data |-> [mintAddress |-> request[s].body.mintAddress.s,
                         signatures |-> outcome.value.signatures,
                         revoked |-> outcome.value.revoked,
                         message |-> <<"Authority revocation completed">>]])
    ELSE Send(s, 500, ErrorResponse(
             IF outcome.value.error # <<>> THEN outcome.value.error
             ELSE <<"Failed to revoke authorities">>))

\* The handler's answer to { success: false, error } from the collaborator.
RevokeFailed(s, error) == RevokeSettled(s, revokeTokenAuthoritiesCatch(error))

\* The handler's answer to { success: true, signatures, revoked }.
RevokeSucceeded(s, signatures, revoked) ==
    RevokeSettled(s, revokeTokenAuthoritiesReturn(signatures, revoked))

\* The key pair that can sign for an authority: the wallet, else the mint
\* signer when one is passed and it is the authority, else none.
NoSigner == ""

\* A variant that signs with the wallet whoever the authority is.
AuthorityKeypairAlwaysWallet(authority, mintSigner) == WalletKey

\* A variant that never tries the mint signer.
AuthorityKeypairWalletOnly(authority, mintSigner) ==
    IF authority = WalletKey THEN WalletKey ELSE NoSigner

AuthorityKeypair(authority, mintSigner) ==
    IF authority = WalletKey THEN WalletKey
    ELSE IF mintSigner # NoSigner /\ authority = mintSigner THEN mintSigner
    ELSE NoSigner

\* A variant that never looks at the authority the ledger holds.
QueuesWhenRequested(authority, requested, mintSigner) == requested

\* A variant that revokes whatever the options say.
QueuesIgnoringOptions(authority, requested, mintSigner) ==
    /\ authority # NoKey
    /\ AuthorityKeypair(authority, mintSigner) # NoSigner

\* if (mintData.<x>Authority && options.revoke<X>Authority) and a key pair
\* signs for it: the set-authority-to-null instruction is added.
Queues(authority, requested, mintSigner) ==
    /\ authority # NoKey
    /\ requested
    /\ AuthorityKeypair(authority, mintSigner) # NoSigner

\* A variant that forgets to add the instruction for the freeze authority.
InstructionsMintOnly(mintData, options, mintSigner) ==
    IF Queues(mintData.mintAuthority, options.revokeMintAuthority, mintSigner)
    THEN << [authorityType |-> "MintTokens",
             currentAuthority |->
                 AuthorityKeypair(mintData.mintAuthority, mintSigner)] >>
    ELSE <<>>

\* The instructions of the transaction, in the order they are added.
Instructions(mintData, options, mintSigner) ==
    (IF Queues(mintData.mintAuthority, options.revokeMintAuthority, mintSigner)
     THEN << [authorityType |-> "MintTokens",
              currentAuthority |->
                  AuthorityKeypair(mintData.mintAuthority, mintSigner)] >>
     ELSE <<>>)
    \o
    (IF Queues(mintData.freezeAuthority, options.revokeFreezeAuthority,
               mintSigner)
     THEN << [authorityType |-> "FreezeAccount",
              currentAuthority |->
                  AuthorityKeypair(mintData.freezeAuthority, mintSigner)] >>
     ELSE <<>>)

\* The ledger executes SetAuthority(mint, currentAuthority, type, null).
Accepts(account, instruction) ==
    /\ account.kind = "mint"
    /\ IF instruction.authorityType = "MintTokens"
       THEN account.mintAuthority = instruction.currentAuthority
       ELSE account.freezeAuthority = instruction.currentAuthority

RECURSIVE Execute(_, _)
Execute(account, instructions) ==
    IF instructions = <<>> THEN account
    ELSE Execute(
             IF Head(instructions).authorityType = "MintTokens"
             THEN [account EXCEPT !.mintAuthority = NoKey]
             ELSE [account EXCEPT !.freezeAuthority = NoKey],
             Tail(instructions))

\* A variant that forgets to check the two flags.
RevokeBodyErrorAddressOnly(body) ==
    IF Falsy(body.mintAddress)
    THEN <<"Missing required parameter: mintAddress">>
    ELSE IF TypeOf(body.mintAddress) # "string"
    THEN <<"mintAddress must be a string">>
    ELSE <<>>

\* The validation of the body by the handler: the error of the first check
\* that fails, or the empty text when the body passes.
RevokeBodyError(body) ==
    IF Falsy(body.mintAddress)
    THEN <<"Missing required parameter: mintAddress">>
    ELSE IF TypeOf(body.mintAddress) # "string"
    THEN <<"mintAddress must be a string">>
    ELSE IF body.revokeMintAuthority.t \notin {"undefined", "boolean"}
    THEN <<"revokeMintAuthority must be a boolean">>
    ELSE IF body.revokeFreezeAuthority.t \notin {"undefined", "boolean"}
    THEN <<"revokeFreezeAuthority must be a boolean">>
    ELSE <<>>

\* From the arrival of the request to the first await: the validation of
\* the body, then in revokeTokenAuthorities the loading of the wallet, the
\* parsing of the address and the call of getParsedAccountInfo.
RevokeAuthorities(s, body) ==
    /\ Free(s)
    /\ request' = [request EXCEPT ![s] =
                     [route |-> "POST /revoke-authorities", body |-> body]]
    /\ UNCHANGED <<ledger, metadataAccounts, generated, NODE_ENV,
                   walletFile, history, client>>
    /\ IF RevokeBodyError(body) # <<>>
       THEN
           /\ MaySend(s)
           /\ Send(s, 400, ErrorResponse(RevokeBodyError(body)))
           /\ locals' = [locals EXCEPT ![s] = NoLocals]
           /\ calls' = [calls EXCEPT ![s] = NoCalls]
           /\ seen' = [seen EXCEPT ![s] = NothingSeen]
       ELSE
           /\ seen' = [seen EXCEPT ![s] =
                         [NothingSeen EXCEPT !.wallet = walletFile]]
           /\ locals' = [locals EXCEPT ![s] =
                           [route |-> "revoke",
                            mintAddress |-> body.mintAddress.s,
                            options |-> RevokeOptions(body),
                            mintSigner |-> NoSigner,
                            instructions |-> <<>>,
                            revoked |-> [mintAuthority |-> FALSE,
                                         freezeAuthority |-> FALSE]]]
           /\ IF walletFile # "keypair" THEN
                  /\ MaySend(s)
                  /\ RevokeFailed(s, WalletError(walletFile))
                  /\ calls' = [calls EXCEPT ![s] =
                                 [NoCalls EXCEPT !.revokeTokenAuthorities = 1]]
              ELSE IF ~IsPublicKey(body.mintAddress.s) THEN
                  /\ MaySend(s)
                  /\ RevokeFailed(s, InvalidPublicKey)
                  /\ calls' = [calls EXCEPT ![s] =
                                 [NoCalls EXCEPT !.revokeTokenAuthorities = 1]]
              ELSE
                  /\ pc' = [pc EXCEPT ![s] = "mintInfo"]
                  /\ response' = [response EXCEPT ![s] = NoResponse]
                  /\ calls' = [calls EXCEPT ![s] =
                                 [NoCalls EXCEPT
                                     !.revokeTokenAuthorities = 1,
                                     !.getParsedAccountInfo = 1]]

\* await connection.getParsedAccountInfo(...) fails.
RevokeMintInfoFails(s, failure) ==
    /\ pc[s] = "mintInfo"
    /\ MaySend(s)
    /\ RevokeFailed(s, failure)
    /\ seen' = [seen EXCEPT ![s].getParsedAccountInfo = "failed"]
    /\ UNCHANGED <<request, locals, calls, ledger, metadataAccounts,
                   generated, NODE_ENV, walletFile, history, client>>

\* await connection.getParsedAccountInfo(...) returns the account as it is
\* now: without parsed mint data the call fails; else the instructions are
\* queued and, when there are any, sent in one transaction.
RevokeMintInfoRead(s) ==
    LET mintData == ledger[locals[s].mintAddress[1]]
        mintSigner == locals[s].mintSigner
        instructions == Instructions(mintData, locals[s].options, mintSigner)
        revoked ==
            [mintAuthority |->
                 Queues(mintData.mintAuthority,
                        locals[s].options.revokeMintAuthority, mintSigner),
             freezeAuthority |->
                 Queues(mintData.freezeAuthority,
                        locals[s].options.revokeFreezeAuthority, mintSigner)]
    IN
    /\ pc[s] = "mintInfo"
    /\ seen' = [seen EXCEPT ![s].getParsedAccountInfo = "ok",
                             ![s].mintData = mintData]
    /\ IF mintData.kind # "mint" THEN
           /\ MaySend(s)
           /\ RevokeFailed(s, NoMintInformation)
           /\ UNCHANGED <<locals, calls>>
       ELSE IF instructions = <<>> THEN
           /\ MaySend(s)
           /\ RevokeSucceeded(s, <<>>, revoked)
           /\ locals' = [locals EXCEPT ![s].revoked = revoked]
           /\ UNCHANGED calls
       ELSE
           /\ pc' = [pc EXCEPT ![s] = "send"]
           /\ locals' = [locals EXCEPT ![s].instructions = instructions,
                                       ![s].revoked = revoked]
           /\ calls' = [calls EXCEPT ![s].sendAndConfirmTransaction = @ + 1]
           /\ UNCHANGED response
    /\ UNCHANGED <<request, ledger, metadataAccounts, generated, NODE_ENV,
                   walletFile, history, client>>

\* await sendAndConfirmTransaction(...) returns a signature: the ledger has
\* executed every instruction of the transaction.
RevokeSendLands(s) ==
    LET address == locals[s].mintAddress[1] IN
    /\ pc[s] = "send"
    /\ MaySend(s)
    /\ \A i \in 1..Len(locals[s].instructions) :
           Accepts(ledger[address], locals[s].instructions[i])
    /\ ledger' = [ledger EXCEPT ![address] =
                    Execute(@, locals[s].instructions)]
    /\ RevokeSucceeded(s, <<"signature of " \o address>>, locals[s].revoked)
    /\ seen' = [seen EXCEPT ![s].transaction = "landed",
                             ![s].before = ledger[address]]
    /\ UNCHANGED <<request, locals, calls, metadataAccounts, generated,
                   NODE_ENV, walletFile, history, client>>

\* await sendAndConfirmTransaction(...) fails: the RPC fails, or the ledger
\* refuses the transaction as a whole; the ledger is as before.
SendFailures(s) ==
    SdkFailures \cup
    (IF \E i \in 1..Len(locals[s].instructions) :
            ~Accepts(ledger[locals[s].mintAddress[1]],
                     locals[s].instructions[i])
     THEN {OwnerMismatch} ELSE {})

RevokeSendFails(s, failure) ==
    /\ pc[s] = "send"
    /\ MaySend(s)
    /\ failure \in SendFailures(s)
    /\ RevokeFailed(s, failure)
    /\ seen' = [seen EXCEPT ![s].transaction = "failed",
                             ![s].before = ledger[locals[s].mintAddress[1]]]
    /\ UNCHANGED <<request, locals, calls, ledger, metadataAccounts,
                   generated, NODE_ENV, walletFile, history, client>>

\* The server after a first /create-token request has been answered 200.
InitRevoke ==
    /\ pc = [s \in Slots |-> "idle"]
    /\ request = [s \in Slots |-> NoRequest]
    /\ response = [s \in Slots |-> NoResponse]
    /\ locals = [s \in Slots |-> NoLocals]
    /\ calls = [s \in Slots |-> NoCalls]
    /\ seen = [s \in Slots |-> NothingSeen]
    /\ generated = 1
    /\ ledger = [a \in Addresses \cup ExternalAddresses |->
                   CASE a = ForeignMint -> MintAccount(ForeignKey, ForeignKey)
                     [] a = SharedMint -> MintAccount(ForeignKey, WalletKey)
                     [] a = SystemAccount -> RawAccount
                     [] a \in {MintAddress(n) : n \in 1..generated} ->
                            MintAccount(WalletKey, WalletKey)
                     [] OTHER -> NoAccount]
    /\ metadataAccounts = {MintAddress(n) : n \in 1..generated}
    /\ NODE_ENV \in {"development", "production"}
    /\ walletFile \in WalletFiles
    /\ history = NoHistory
    /\ client = NoClient

NextRevoke ==
    \/ \E s \in Slots, a \in MintAddressValues, m \in FlagValues,
          f \in FlagValues :
           RevokeAuthorities(s, [mintAddress |-> a, revokeMintAuthority |-> m,
                                 revokeFreezeAuthority |-> f])
    \/ \E s \in Slots, f \in SdkFailures : RevokeMintInfoFails(s, f)
    \/ \E s \in Slots : RevokeMintInfoRead(s)
    \/ \E s \in Slots : RevokeSendLands(s)
    \/ \E s \in Slots, f \in SdkFailures \cup {OwnerMismatch} :
           RevokeSendFails(s, f)
    \/ \E s \in Slots : Close(s)

SpecRevoke == InitRevoke /\ [][NextRevoke]_vars

(***************************************************************************)
(* A client that calls POST /revoke-authorities again and again, each call *)
(* after the previous one was answered, and repeats the body it sent.      *)
(***************************************************************************)
\* What a client knows of a call once it has the response, and which of the
\* authorities the transaction of the call cleared on the ledger.
Completed(s) ==
    [body |-> request[s].body,
     status |-> response[s].status,
     cleared |->
         [x \in {"mintAuthority", "freezeAuthority"} |->
              /\ seen[s].transaction = "landed"
              /\ locals[s].revoked[x]]]

\* The response is read and the connection closed.
CloseAfterRevoke(s) ==
    /\ pc[s] = "done"
    /\ history' = Completed(s)
    /\ pc' = [pc EXCEPT ![s] = "idle"]
    /\ request' = [request EXCEPT ![s] = NoRequest]
    /\ response' = [response EXCEPT ![s] = NoResponse]
    /\ locals' = [locals EXCEPT ![s] = NoLocals]
    /\ calls' = [calls EXCEPT ![s] = NoCalls]
    /\ seen' = [seen EXCEPT ![s] = NothingSeen]
    /\ UNCHANGED <<ledger, metadataAccounts, generated, NODE_ENV, walletFile,
                   client>>

\* The next call starts when no other is in flight; after the first call
\* its body is that of the call before.
RevokeAgain(s, body) ==
    /\ \A o \in Slots \ {s} : pc[o] = "idle"
    /\ history # NoHistory => body = history.body
    /\ RevokeAuthorities(s, body)

NextTwice ==
    \/ \E s \in Slots, a \in MintAddressValues, m \in FlagValues,
          f \in FlagValues :
           RevokeAgain(s, [mintAddress |-> a, revokeMintAuthority |-> m,
                           revokeFreezeAuthority |-> f])
    \/ \E s \in Slots, f \in SdkFailures : RevokeMintInfoFails(s, f)
    \/ \E s \in Slots : RevokeMintInfoRead(s)
    \/ \E s \in Slots : RevokeSendLands(s)
    \/ \E s \in Slots, f \in SdkFailures \cup {OwnerMismatch} :
           RevokeSendFails(s, f)
    \/ \E s \in Slots : CloseAfterRevoke(s)

SpecTwice == InitRevoke /\ [][NextTwice]_vars

(***************************************************************************)
(* Requests to POST /revoke-authorities that are in flight together: the   *)
(* handlers interleave at their awaits.  The wallet file holds the key     *)
(* pair, and the RPC node answers every call, so that a request fails only *)
(* when the ledger refuses its transaction.                                *)
(***************************************************************************)
Racers == 1..(MaxInFlight + 1)

\* The mints the racing requests name: the created mint, and the mint of
\* which the wallet holds the freeze authority only.
RaceAddresses == {MintAddress(1), SharedMint}

InitRace ==
    /\ pc = [s \in Racers |-> "idle"]
    /\ request = [s \in Racers |-> NoRequest]
    /\ response = [s \in Racers |-> NoResponse]
    /\ locals = [s \in Racers |-> NoLocals]
    /\ calls = [s \in Racers |-> NoCalls]
    /\ seen = [s \in Racers |-> NothingSeen]
    /\ generated = 1
    /\ ledger = [a \in Addresses \cup ExternalAddresses |->
                   CASE a = ForeignMint -> MintAccount(ForeignKey, ForeignKey)
                     [] a = SharedMint -> MintAccount(ForeignKey, WalletKey)
                     [] a = SystemAccount -> RawAccount
                     [] a = MintAddress(1) -> MintAccount(WalletKey, WalletKey)
                     [] OTHER -> NoAccount]
    /\ metadataAccounts = {MintAddress(1)}
    /\ NODE_ENV = "production"
    /\ walletFile = "keypair"
    /\ history = NoHistory
    /\ client = NoClient

NextRace ==
    \/ \E s \in Racers, a \in RaceAddresses, m, f \in FlagValues \ {Null} :
           RevokeAuthorities(s, [mintAddress |-> Str(<<a>>),
                                 revokeMintAuthority |-> m,
                                 revokeFreezeAuthority |-> f])
    \/ \E s \in Racers : RevokeMintInfoRead(s)
    \/ \E s \in Racers : RevokeSendLands(s)
    \/ \E s \in Racers : RevokeSendFails(s, OwnerMismatch)
    \/ \E s \in Racers : Close(s)

SpecRace == InitRace /\ [][NextRace]_vars

(***************************************************************************)
(* revokeTokenAuthorities(mintAddress, options, mintSignerSecretKey)       *)
(* called as the exported function it is, with or without the key of a     *)
(* mint signer, on a mint whose authorities are any of the wallet, the     *)
(* other key, or revoked.  The state starts at the await of                *)
(* getParsedAccountInfo; the result is recorded as the handler reports it. *)
(***************************************************************************)
AuthorityValues == {WalletKey, ForeignKey, NoKey}
MintSigners == {NoSigner, ForeignKey, WalletKey}

InitCall ==
    /\ pc = [s \in Slots |-> "mintInfo"]
    /\ request = [s \in Slots |->
                    [route |-> "revokeTokenAuthorities",
                     body |-> [mintAddress |-> Str(<<MintAddress(1)>>)]]]
    /\ response = [s \in Slots |-> NoResponse]
    /\ \E m, f \in BOOLEAN, k \in MintSigners :
           locals = [s \in Slots |->
                       [route |-> "revoke",
                        mintAddress |-> <<MintAddress(1)>>,
                        options |-> [revokeMintAuthority |-> m,
                                     revokeFreezeAuthority |-> f],
                        mintSigner |-> k,
                        instructions |-> <<>>,
                        revoked |-> [mintAuthority |-> FALSE,
                                     freezeAuthority |-> FALSE]]]
    /\ calls = [s \in Slots |->
                  [NoCalls EXCEPT !.revokeTokenAuthorities = 1,
                                  !.getParsedAccountInfo = 1]]
    /\ seen = [s \in Slots |-> [NothingSeen EXCEPT !.wallet = "keypair"]]
    /\ generated = 1
    /\ \E ma, fa \in AuthorityValues :
           ledger = [a \in Addresses \cup ExternalAddresses |->
                       CASE a = ForeignMint ->
                                MintAccount(ForeignKey, ForeignKey)
                         [] a = SharedMint -> MintAccount(ForeignKey, WalletKey)
                         [] a = SystemAccount -> RawAccount
                         [] a = MintAddress(1) -> MintAccount(ma, fa)
                         [] OTHER -> NoAccount]
    /\ metadataAccounts = {MintAddress(1)}
    /\ NODE_ENV = "production"
    /\ walletFile = "keypair"
    /\ history = NoHistory
    /\ client = NoClient

NextCall ==
    \/ \E s \in Slots, f \in SdkFailures : RevokeMintInfoFails(s, f)
    \/ \E s \in Slots : RevokeMintInfoRead(s)
    \/ \E s \in Slots : RevokeSendLands(s)
    \/ \E s \in Slots, f \in SdkFailures \cup {OwnerMismatch} :
           RevokeSendFails(s, f)

SpecCall == InitCall /\ [][NextCall]_vars

(***************************************************************************)
(* GET /health, with the middleware every request passes first: helmet,    *)
(* cors and morgan answer nothing and fail nothing; express.json() reads a *)
(* body of type application/json, whatever the method, and on a body that  *)
(* does not parse passes its error to the global error handler.            *)
(***************************************************************************)
\* The clock at the arrival of a request: seconds since the epoch, and the
\* milliseconds of that second.
Instants ==
    { [sec |-> 0, ms |-> 0],
      [sec |-> 951868799, ms |-> 999],
      [sec |-> 1762000496, ms |-> 7] }

Pad2(n) == IF n < 10 THEN "0" \o ToString(n) ELSE ToString(n)
Pad3(n) == IF n < 100 THEN "0" \o Pad2(n) ELSE ToString(n)
Pad4(n) == IF n < 1000 THEN "0" \o Pad3(n) ELSE ToString(n)

\* The UTC calendar date of a day counted from 1970-01-01.
CivilFromDays(z) ==
    LET shifted == z + 719468
        era == shifted \div 146097
        doe == shifted - era * 146097
        yoe == (doe - doe \div 1460 + doe \div 36524 - doe \div 146096)
                   \div 365
        doy == doe - (365 * yoe + yoe \div 4 - yoe \div 100)
        mp == (5 * doy + 2) \div 153
        m == IF mp < 10 THEN mp + 3 ELSE mp - 9
    IN  [year |-> yoe + era * 400 + (IF m <= 2 THEN 1 ELSE 0),
         month |-> m,
         day |-> doy - (153 * mp + 2) \div 5 + 1]

\* A variant that prints the month as getUTCMonth() gives it, from 0.
toISOStringMonthFromZero(now) ==
    LET date == CivilFromDays(now.sec \div 86400)
        time == now.sec % 86400
    IN  <<Pad4(date.year), "-", Pad2(date.month - 1), "-", Pad2(date.day),
          "T", Pad2(time \div 3600), ":", Pad2((time % 3600) \div 60), ":",
          Pad2(time % 60), ".", Pad3(now.ms), "Z">>

\* Date.prototype.toISOString: YYYY-MM-DDTHH:mm:ss.sssZ
toISOString(now) ==
    LET date == CivilFromDays(now.sec \div 86400)
        time == now.sec % 86400
    IN  <<Pad4(date.year), "-", Pad2(date.month), "-", Pad2(date.day),
          "T", Pad2(time \div 3600), ":", Pad2((time % 3600) \div 60), ":",
          Pad2(time % 60), ".", Pad3(now.ms), "Z">>

\* The body a request carries: none, JSON text, or text that is no JSON.
RawBodies == {"none", "json", "malformed"}

\* body-parser: JSON.parse failed on the body of the request
BodyParseError ==
    Error("SyntaxError", <<"Unexpected token n in ", "JSON", " at position 1">>)

\* A variant that leaves the stack out in production only.
InternalServerErrorUnlessProduction(error) ==
    [success |-> FALSE,
     error |-> <<"Internal server error">>,
     details |-> IF NODE_ENV # "production" THEN Str(Stack(error))
                 ELSE Undefined]

\* The global error handler, the last middleware of the app.
InternalServerError(error) ==
    [success |-> FALSE,
     error |-> <<"Internal server error">>,
     details |-> IF NODE_ENV = "development" THEN Str(Stack(error))
                 ELSE Undefined]

Health(s, now, rawBody) ==
    /\ Free(s)
    /\ request' = [request EXCEPT ![s] =
                     [route |-> "GET /health", rawBody |-> rawBody,
                      at |-> now]]
    /\ IF rawBody = "malformed"
       THEN Send(s, 500, InternalServerError(BodyParseError))
       ELSE Send(s, 200, [status |-> "OK", timestamp |-> toISOString(now)])
    /\ locals' = [locals EXCEPT ![s] = NoLocals]
    /\ calls' = [calls EXCEPT ![s] = NoCalls]
    /\ seen' = [seen EXCEPT ![s] = NothingSeen]
    /\ UNCHANGED <<ledger, metadataAccounts, generated, NODE_ENV,
                   walletFile, history, client>>

\* The connection of a health probe, next to those of the other requests.
Probe == MaxInFlight + 1

InitHealth ==
    /\ pc = [s \in Racers |-> "idle"]
    /\ request = [s \in Racers |-> NoRequest]
    /\ response = [s \in Racers |-> NoResponse]
    /\ locals = [s \in Racers |-> NoLocals]
    /\ calls = [s \in Racers |-> NoCalls]
    /\ seen = [s \in Racers |-> NothingSeen]
    /\ generated = 1
    /\ ledger = [a \in Addresses \cup ExternalAddresses |->
                   CASE a = ForeignMint -> MintAccount(ForeignKey, ForeignKey)
                     [] a = SharedMint -> MintAccount(ForeignKey, WalletKey)
                     [] a = SystemAccount -> RawAccount
                     [] a = MintAddress(1) -> MintAccount(WalletKey, WalletKey)
                     [] OTHER -> NoAccount]
    /\ metadataAccounts = {MintAddress(1)}
    /\ NODE_ENV \in {"development", "production"}
    /\ walletFile \in WalletFiles
    /\ history = NoHistory
    /\ client = NoClient

\* The probe next to requests to /revoke-authorities, valid and not, that
\* succeed, fail, or are in flight.
NextHealth ==
    \/ \E now \in Instants, b \in RawBodies : Health(Probe, now, b)
    \/ Close(Probe)
    \/ \E s \in Slots, a \in {Undefined, Str(<<MintAddress(1)>>)},
          m \in {Undefined, Bool(FALSE)} :
           RevokeAuthorities(s, [mintAddress |-> a, revokeMintAuthority |-> m,
                                 revokeFreezeAuthority |-> Undefined])
    \/ \E s \in Slots, f \in SdkFailures : RevokeMintInfoFails(s, f)
    \/ \E s \in Slots : RevokeMintInfoRead(s)
    \/ \E s \in Slots : RevokeSendLands(s)
    \/ \E s \in Slots, f \in SdkFailures \cup {OwnerMismatch} :
           RevokeSendFails(s, f)
    \/ \E s \in Slots : Close(s)

SpecHealth == InitHealth /\ [][NextHealth]_vars

(***************************************************************************)
(* The middleware stack and the router: helmet, cors, morgan and           *)
(* express.json run on every request, then the three routes, then the 404  *)
(* handler; an error passed on by a middleware goes to the global error    *)
(* handler.                                                                *)
(***************************************************************************)
\* The routes of the app, in the order of their declaration.
Routes ==
    << [name |-> "GET /health", method |-> "GET", path |-> <<"/", "health">>],
       [name |-> "POST /create-token", method |-> "POST",
        path |-> <<"/", "create-token">>],
       [name |-> "POST /revoke-authorities", method |-> "POST",
        path |-> <<"/", "revoke-authorities">>] >>

\* The router compares paths without regard to case and to one trailing
\* slash (the defaults: case sensitive routing off, strict routing off).
PathMatches(routePath, path) ==
    LET stripped == IF Len(path) > 1 /\ path[Len(path)] = "/"
                    THEN SubSeq(path, 1, Len(path) - 1) ELSE path
    IN  [i \in DOMAIN stripped |->
           IF stripped[i] = "Health" THEN "health" ELSE stripped[i]] = routePath

\* The name of the route that serves the request, "*" when none does; a
\* route declared for GET serves HEAD too.
Route(method, path) ==
    LET served == {i \in DOMAIN Routes :
                     /\ \/ method = Routes[i].method
                        \/ method = "HEAD" /\ Routes[i].method = "GET"
                     /\ PathMatches(Routes[i].path, path)}
    IN  IF served = {} THEN "*"
        ELSE Routes[CHOOSE i \in served : \A j \in served : i <= j].name

\* Where a request ends: cors() answers every OPTIONS request itself,
\* express.json() passes the error of a body it cannot parse to the global
\* error handler, and the router takes what is left.
Dispatch(method, path, rawBody) ==
    IF method = "OPTIONS" THEN "cors"
    ELSE IF rawBody = "malformed" THEN "error"
    ELSE Route(method, path)

\* What Express itself answers where no handler takes the request.
FinalHandlerNotFound(method, path) ==
    [html |-> <<"Cannot ", method, " ">> \o path]

\* The 404 handler, app.use('*', ...)
EndpointNotFound(method, path) == ErrorResponse(<<"Endpoint not found">>)

\* A request that none of the two POST handlers takes: it is answered by
\* cors, by the global error handler, by the handler of /health or by the 404
\* handler.
Arrive(s, method, path, rawBody, now) ==
    LET to == Dispatch(method, path, rawBody) IN
    /\ Free(s)
    /\ to \in {"cors", "error", "GET /health", "*"}
    /\ IF to = "GET /health"
       THEN Health(s, now, rawBody)
       ELSE /\ request' = [request EXCEPT ![s] =
                             [route |-> to, method |-> method, path |-> path,
                              rawBody |-> rawBody]]
            /\ CASE to = "cors" -> Send(s, 204, [contentLength |-> 0])
                 [] to = "error" ->
                      Send(s, 500, InternalServerError(BodyParseError))
                 [] to = "*" -> Send(s, 404, EndpointNotFound(method, path))
            /\ locals' = [locals EXCEPT ![s] = NoLocals]
            /\ calls' = [calls EXCEPT ![s] = NoCalls]
            /\ seen' = [seen EXCEPT ![s] = NothingSeen]
            /\ UNCHANGED <<ledger, metadataAccounts, generated, NODE_ENV,
                           walletFile, history, client>>

(***************************************************************************)
(* The whole service: every method and path, and on the two POST routes    *)
(* one body for each branch of the validation and one answer for each way  *)
(* a collaborator can answer.                                              *)
(***************************************************************************)
ServiceDocuments == {GoodDocument, Null, Obj(<<>>)}

NextService ==
    \/ \E s \in Slots, m \in {"GET", "HEAD", "POST", "DELETE", "OPTIONS"},
          p \in { <<"/", "health">>, <<"/", "Health", "/">>,
                  <<"/", "create-token">>, <<"/", "revoke-authorities">>,
                  <<"/", "unknown">> },
          b \in RawBodies :
           Arrive(s, m, p, b, [sec |-> 1762000496, ms |-> 7])
    \/ \E s \in Slots,
          v \in {Undefined, Num(123), Str(<<"not-a-url">>),
                 Str(<<"https", ":", "//", "example.com", "/",
                       "metadata.json">>)} :
           CreateToken(s, v)
    \/ \E s \in Slots, r \in NetworkReasons : FetchFails(s, r)
    \/ \E s \in Slots, h \in HttpStatuses : FetchResponds(s, h)
    \/ \E s \in Slots, m \in JsonSyntaxErrors : JsonFails(s, m)
    \/ \E s \in Slots, d \in ServiceDocuments : JsonParsed(s, d)
    \/ \E s \in Slots : CreateMintSucceeds(s)
    \/ \E s \in Slots, f \in SdkFailures : CreateMintFails(s, f)
    \/ \E s \in Slots : CreateV1Succeeds(s)
    \/ \E s \in Slots, f \in SdkFailures : CreateV1Fails(s, f)
    \/ \E s \in Slots : MintInfoRead(s)
    \/ \E s \in Slots, f \in SdkFailures : MintInfoFails(s, f)
    \/ \E s \in Slots,
          a \in {Undefined, Num(5), Str(<<"not-base58!">>),
                 Str(<<MintAddress(1)>>), Str(<<SystemAccount>>)},
          m \in {Undefined, Bool(FALSE), Null} :
           RevokeAuthorities(s, [mintAddress |-> a, revokeMintAuthority |-> m,
                                 revokeFreezeAuthority |-> Undefined])
    \/ \E s \in Slots, f \in SdkFailures : RevokeMintInfoFails(s, f)
    \/ \E s \in Slots : RevokeMintInfoRead(s)
    \/ \E s \in Slots : RevokeSendLands(s)
    \/ \E s \in Slots, f \in SdkFailures \cup {OwnerMismatch} :
           RevokeSendFails(s, f)
    \/ \E s \in Slots : Close(s)

\* The server after a first /create-token request has been answered 200.
InitService ==
    /\ pc = [s \in Slots |-> "idle"]
    /\ request = [s \in Slots |-> NoRequest]
    /\ response = [s \in Slots |-> NoResponse]
    /\ locals = [s \in Slots |-> NoLocals]
    /\ calls = [s \in Slots |-> NoCalls]
    /\ seen = [s \in Slots |-> NothingSeen]
    /\ generated = 1
    /\ ledger = [a \in Addresses \cup ExternalAddresses |->
                   CASE a = ForeignMint -> MintAccount(ForeignKey, ForeignKey)
                     [] a = SharedMint -> MintAccount(ForeignKey, WalletKey)
                     [] a = SystemAccount -> RawAccount
                     [] a = MintAddress(1) -> MintAccount(WalletKey, WalletKey)
                     [] OTHER -> NoAccount]
    /\ metadataAccounts = {MintAddress(1)}
    /\ NODE_ENV \in {"development", "production", "test"}
    /\ walletFile \in {"keypair", "ENOENT", "badKey"}
    /\ history = NoHistory
    /\ client = NoClient

SpecService == InitService /\ [][NextService]_vars

(***************************************************************************)
(* The ledger under requests to both POST routes that overlap: well-formed *)
(* bodies, the wallet and the metadata server working, the attachment of   *)
(* the metadata and the transaction of the revocation succeeding or not.   *)
(***************************************************************************)
NextLedger ==
    \/ \E s \in Racers :
           CreateToken(s, Str(<<"https", ":", "//", "example.com", "/",
                                "metadata.json">>))
    \/ \E s \in Racers : FetchResponds(s, [status |-> 200, statusText |-> "OK"])
    \/ \E s \in Racers : JsonParsed(s, GoodDocument)
    \/ \E s \in Racers : CreateMintSucceeds(s)
    \/ \E s \in Racers : CreateV1Succeeds(s)
    \/ \E s \in Racers :
           CreateV1Fails(s, Error("SendTransactionError",
                                  <<"failed to send transaction">>))
    \/ \E s \in Racers : MintInfoRead(s)
    \/ \E s \in Racers, a \in Addresses, m, f \in {Undefined, Bool(FALSE)} :
           /\ Undefined \in {m, f}
           /\ RevokeAuthorities(s, [mintAddress |-> Str(<<a>>),
                                    revokeMintAuthority |-> m,
                                    revokeFreezeAuthority |-> f])
    \/ \E s \in Racers : RevokeMintInfoRead(s)
    \/ \E s \in Racers : RevokeSendLands(s)
    \/ \E s \in Racers : RevokeSendFails(s, OwnerMismatch)
    \/ \E s \in Racers : Close(s)

SpecLedger == InitRace /\ [][NextLedger]_vars

(***************************************************************************)
(* scripts/api-utils.js: createTokenAndRevokeAuthorities, a script that    *)
(* posts to /create-token and then to /revoke-authorities.  The script     *)
(* runs next to the server: it posts a request, the server handles it on a *)
(* connection, the script reads the response, the connection is closed.    *)
(* JSON.stringify leaves out a property whose value is undefined, which    *)
(* the server then reads as undefined; every other value of the bodies     *)
(* below arrives as it was sent.                                           *)
(***************************************************************************)
NoReply == [k |-> "-"]
NoResult == [success |-> "-"]

\* fetch rejects: the server cannot be reached.
Unreachable ==
    [k |-> "rejected",
     message |-> <<"request to http://localhost:3001 failed, reason: ",
                   "connect ECONNREFUSED">>]

\* The response the server sent on connection s, as fetch resolves it.
Reply(s) ==
    [k |-> "response", status |-> response[s].status,
     body |-> response[s].body]

\* data.k, undefined for a property the body does not have
Field(data, k) == IF k \in DOMAIN data THEN data[k] ELSE Undefined

\* response.ok && data.success
OkAndSuccess(reply) ==
    /\ reply.status \in 200..299
    /\ "success" \in DOMAIN reply.body
    /\ reply.body.success

\* createToken(metadataUrl, options): what it returns for the outcome of
\* its fetch.
createTokenResult(reply) ==
    IF reply.k = "rejected"
    THEN [success |-> FALSE, error |-> reply.message]
    ELSE IF OkAndSuccess(reply)
    THEN [success |-> TRUE,
          mintAddress |-> reply.body.data.mintAddress,
          transactionSignature |-> reply.body.data.transactionSignature,
          explorerUrl |-> reply.body.data.explorerUrl]
    ELSE [success |-> FALSE, error |-> Field(reply.body, "error"),
          details |-> Field(reply.body, "details")]

\* revokeAuthorities(mintAddress, options)
revokeAuthoritiesResult(reply) ==
    IF reply.k = "rejected"
    THEN [success |-> FALSE, error |-> reply.message]
    ELSE IF OkAndSuccess(reply)
    THEN [success |-> TRUE,
          revoked |-> reply.body.data.revoked,
          signatures |-> reply.body.data.signatures,
          message |-> reply.body.data.message]
    ELSE [success |-> FALSE, error |-> Field(reply.body, "error"),
          details |-> Field(reply.body, "details")]

\* The body of the POST to /revoke-authorities; an option that is left out
\* is true (const { revokeMintAuthority = true, ... } = options).
RevokeBodyOf(createResult, options) ==
    [mintAddress |-> IF "mintAddress" \in DOMAIN createResult
                     THEN Str(createResult.mintAddress) ELSE Undefined,
     revokeMintAuthority |->
         IF options.revokeMintAuthority = Undefined THEN Bool(TRUE)
         ELSE options.revokeMintAuthority,
     revokeFreezeAuthority |->
         IF options.revokeFreezeAuthority = Undefined THEN Bool(TRUE)
         ELSE options.revokeFreezeAuthority]

\* A variant without the early return after a failed creation.
ProceedsAlways(createResult) == TRUE

\* if (!createResult.success) return { success: false, step: 'create', ... }
Proceeds(createResult) == createResult.success

\* What createTokenAndRevokeAuthorities returns.
SagaResult(createResult, revokeResult) ==
    IF revokeResult = NoResult
    THEN [success |-> FALSE, step |-> "create",
          error |-> Field(createResult, "error"),
          details |-> Field(createResult, "details")]
    ELSE IF ~revokeResult.success
    THEN [success |-> FALSE, step |-> "revoke",
          mintAddress |-> Field(createResult, "mintAddress"),
          explorerUrl |-> Field(createResult, "explorerUrl"),
          error |-> Field(revokeResult, "error"),
          details |-> Field(revokeResult, "details")]
    ELSE [success |-> TRUE,
          mintAddress |-> createResult.mintAddress,
          explorerUrl |-> createResult.explorerUrl,
          transactionSignature |-> createResult.transactionSignature,
          revoked |-> revokeResult.revoked,
          revokeSignatures |-> revokeResult.signatures]

ServerVars ==
    <<pc, request, response, locals, calls, seen, ledger, metadataAccounts,
      generated, NODE_ENV, walletFile, history>>

\* createToken posts to /create-token.
SagaPostsCreate ==
    /\ client.pc = "start"
    /\ client' = [client EXCEPT !.pc = "create", !.posted = <<"create">>]
    /\ UNCHANGED ServerVars

\* await fetch / await response.json() of createToken settle; after a
\* failure the script returns, else it waits.
SagaCreateSettles(reply) ==
    LET createResult == createTokenResult(reply) IN
    /\ client.pc = "create"
    /\ client' = [client EXCEPT
                    !.createReply = reply,
                    !.createResult = createResult,
                    !.pc = IF Proceeds(createResult) THEN "wait"
                           ELSE "returned",
                    !.returned = IF Proceeds(createResult) THEN NoResult
                                 ELSE SagaResult(createResult, NoResult)]
    /\ UNCHANGED ServerVars

\* The timer of waitTime fires and revokeAuthorities posts to
\* /revoke-authorities.
SagaPostsRevoke ==
    /\ client.pc = "wait"
    /\ client' = [client EXCEPT !.pc = "revoke",
                                !.posted = @ \o <<"revoke">>]
    /\ UNCHANGED ServerVars

\* await fetch / await response.json() of revokeAuthorities settle and the
\* script returns.
SagaRevokeSettles(reply) ==
    LET revokeResult == revokeAuthoritiesResult(reply) IN
    /\ client.pc = "revoke"
    /\ client' = [client EXCEPT
                    !.revokeReply = reply,
                    !.revokeResult = revokeResult,
                    !.pc = "returned",
                    !.returned = SagaResult(client.createResult, revokeResult)]
    /\ UNCHANGED ServerVars

\* The request the script has posted is on no connection yet.
NotTaken == \A s \in DOMAIN pc : pc[s] = "idle"

\* The script has the response of connection s in hand, or never asked.
ReadByClient(s) ==
    \/ client.pc \in {"wait", "returned"}
    \/ client.pc = "revoke" /\ request[s].route # "POST /revoke-authorities"

InitSaga ==
    /\ pc = [s \in Slots |-> "idle"]
    /\ request = [s \in Slots |-> NoRequest]
    /\ response = [s \in Slots |-> NoResponse]
    /\ locals = [s \in Slots |-> NoLocals]
    /\ calls = [s \in Slots |-> NoCalls]
    /\ seen = [s \in Slots |-> NothingSeen]
    /\ ledger = [a \in Addresses \cup ExternalAddresses |->
                   CASE a = ForeignMint -> MintAccount(ForeignKey, ForeignKey)
                     [] a = SharedMint -> MintAccount(ForeignKey, WalletKey)
                     [] a = SystemAccount -> RawAccount
                     [] OTHER -> NoAccount]
    /\ metadataAccounts = {}
    /\ generated = 0
    /\ NODE_ENV \in {"development", "production"}
    /\ walletFile \in {"keypair", "ENOENT"}
    /\ history = NoHistory
    /\ \E u \in {Undefined, Str(<<"not-a-url">>),
                  Str(<<"https", ":", "//", "example.com", "/",
                        "metadata.json">>)},
          m, f \in {Undefined, Bool(FALSE)} :
           client = [pc |-> "start", metadataUrl |-> u,
                     options |-> [revokeMintAuthority |-> m,
                                  revokeFreezeAuthority |-> f],
                     posted |-> <<>>,
                     createReply |-> NoReply, createResult |-> NoResult,
                     revokeReply |-> NoReply, revokeResult |-> NoResult,
                     returned |-> NoResult]

NextSaga ==
    \/ SagaPostsCreate
    \/ \E s \in Slots :
           /\ client.pc = "create" /\ NotTaken
           /\ CreateToken(s, client.metadataUrl)
    \/ client.pc = "create" /\ NotTaken /\ SagaCreateSettles(Unreachable)
    \/ \E s \in Slots :
           /\ pc[s] = "done" /\ request[s].route = "POST /create-token"
           /\ SagaCreateSettles(Reply(s))
    \/ SagaPostsRevoke
    \/ \E s \in Slots :
           /\ client.pc = "revoke" /\ NotTaken
           /\ RevokeAuthorities(s, RevokeBodyOf(client.createResult,
                                                client.options))
    \/ client.pc = "revoke" /\ NotTaken /\ SagaRevokeSettles(Unreachable)
    \/ \E s \in Slots :
           /\ pc[s] = "done" /\ request[s].route = "POST /revoke-authorities"
           /\ SagaRevokeSettles(Reply(s))
    \/ \E s \in Slots : ReadByClient(s) /\ Close(s)
    \/ \E s \in Slots, r \in NetworkReasons : FetchFails(s, r)
    \/ \E s \in Slots, h \in HttpStatuses : FetchResponds(s, h)
    \/ \E s \in Slots, m \in JsonSyntaxErrors : JsonFails(s, m)
    \/ \E s \in Slots, d \in ServiceDocuments : JsonParsed(s, d)
    \/ \E s \in Slots : CreateMintSucceeds(s)
    \/ \E s \in Slots, f \in SdkFailures : CreateMintFails(s, f)
    \/ \E s \in Slots : CreateV1Succeeds(s)
    \/ \E s \in Slots, f \in SdkFailures : CreateV1Fails(s, f)
    \/ \E s \in Slots : MintInfoRead(s)
    \/ \E s \in Slots, f \in SdkFailures : MintInfoFails(s, f)
    \/ \E s \in Slots, f \in SdkFailures : RevokeMintInfoFails(s, f)
    \/ \E s \in Slots : RevokeMintInfoRead(s)
    \/ \E s \in Slots : RevokeSendLands(s)
    \/ \E s \in Slots, f \in SdkFailures : RevokeSendFails(s, f)

SpecSaga == InitSaga /\ [][NextSaga]_vars

(***************************************************************************)
(* scripts/api-utils.js: retryOperation(operation, options).  The          *)
(* operation is any async function: each call of it resolves with a value  *)
(* or rejects with an error.                                               *)
(***************************************************************************)
\* Math.min(baseDelay * Math.pow(2, attempt - 1), maxDelay)
Delay(attempt, baseDelay, maxDelay) ==
    IF baseDelay * 2 ^ (attempt - 1) < maxDelay
    THEN baseDelay * 2 ^ (attempt - 1) ELSE maxDelay

\* A variant that never breaks out of the loop.
IsLastAttemptNever(attempt, maxRetries) == FALSE

\* if (attempt === maxRetries) break
IsLastAttempt(attempt, maxRetries) == attempt = maxRetries

\* The head of the for loop with the given value of attempt: the operation
\* is called, or the loop ends and lastError is thrown.
Enter(c, attempt) ==
    IF attempt <= c.maxRetries
    THEN [c EXCEPT !.pc = "operation", !.attempt = attempt,
                   !.invoked = @ + 1, !.running = @ + 1]
    ELSE [c EXCEPT !.pc = "thrown", !.attempt = attempt,
                   !.settled = [k |-> "threw", error |-> c.lastError]]

RetryCalled ==
    /\ client.pc = "called"
    /\ client' = Enter(client, 1)
    /\ UNCHANGED ServerVars

\* return await operation()
OperationResolves(value) ==
    /\ client.pc = "operation"
    /\ client' = [client EXCEPT
                    !.pc = "returned",
                    !.running = @ - 1,
                    !.outcomes = Append(@, [ok |-> TRUE, value |-> value]),
                    !.settled = [k |-> "returned", value |-> value]]
    /\ UNCHANGED ServerVars

\* catch (error): the last attempt breaks out of the loop and lastError is
\* thrown; any other attempt starts the timer of its delay.
OperationRejects(error) ==
    LET caught == [client EXCEPT
                     !.running = @ - 1,
                     !.outcomes = Append(@, [ok |-> FALSE, error |-> error]),
                     !.lastError = error]
    IN
    /\ client.pc = "operation"
    /\ client' =
         IF IsLastAttempt(client.attempt, client.maxRetries)
         THEN [caught EXCEPT !.pc = "thrown",
                             !.settled = [k |-> "threw", error |-> error]]
         ELSE [caught EXCEPT
                 !.pc = "wait",
                 !.waits = Append(@, [after |-> client.attempt,
                                      ms |-> Delay(client.attempt,
                                                   client.baseDelay,
                                                   client.maxDelay)])]
    /\ UNCHANGED ServerVars

\* await wait(delay) is over: attempt++ and the head of the loop.
WaitEnds ==
    /\ client.pc = "wait"
    /\ client' = Enter(client, client.attempt + 1)
    /\ UNCHANGED ServerVars

InitRetry ==
    /\ pc = [s \in Slots |-> "idle"]
    /\ request = [s \in Slots |-> NoRequest]
    /\ response = [s \in Slots |-> NoResponse]
    /\ locals = [s \in Slots |-> NoLocals]
    /\ calls = [s \in Slots |-> NoCalls]
    /\ seen = [s \in Slots |-> NothingSeen]
    /\ ledger = [a \in Addresses \cup ExternalAddresses |->
                   CASE a = ForeignMint -> MintAccount(ForeignKey, ForeignKey)
                     [] a = SharedMint -> MintAccount(ForeignKey, WalletKey)
                     [] a = SystemAccount -> RawAccount
                     [] OTHER -> NoAccount]
    /\ metadataAccounts = {}
    /\ generated = 0
    /\ NODE_ENV = "production"
    /\ walletFile = "keypair"
    /\ history = NoHistory
    /\ \E n \in 0..MaxRetries, d \in {500, 1000, 6000} :
           client = [pc |-> "called", maxRetries |-> n, baseDelay |-> d,
                     maxDelay |-> 10000, attempt |-> 0,
                     invoked |-> 0, running |-> 0, outcomes |-> <<>>,
                     waits |-> <<>>, lastError |-> Undefined,
                     settled |-> [k |-> "-"]]

NextRetry ==
    \/ RetryCalled
    \/ \E v \in {"first value", "second value"} : OperationResolves(v)
    \/ \E e \in {Error("Error", <<"socket hang up">>),
                  Error("Error", <<"timeout">>)} : OperationRejects(e)
    \/ WaitEnds

SpecRetry == InitRetry /\ [][NextRetry]_vars

(***************************************************************************)
(* Vocabulary of the properties.                                           *)
(***************************************************************************)
IsCreate(s) == request[s].route = "POST /create-token"
Answered(s) == pc[s] = "done"

\* An absolute http or https URL, as a string.
IsHttpUrl(v) == v.t = "string" /\ v.s \in HttpUrlStrings

\* A string that is not empty once trimmed.
NonEmptyString(v) == v.t = "string" /\ Trim(v.s) # <<>>

\* An object carrying non-empty string name, symbol, description and image.
WellFormedMetadata(d) ==
    /\ d.t = "object"
    /\ \A i \in 1..4 : NonEmptyString(Get(d, RequiredFields[i]))

\* The request got a parsed JSON document from the metadata server.
GotDocument(s) == IsCreate(s) /\ seen[s].body \in {"accepted", "rejected"}

\* Nothing was asked of the minting collaborator for this request.
NoMintAttempt(s) ==
    /\ calls[s].createMint = 0
    /\ calls[s].createV1 = 0
    /\ locals[s].route = "create" => locals[s].mint = ""

(***************************************************************************)
(* C1.  A POST /create-token request whose metadataUrl is missing, empty,  *)
(* not a string, or a string that is no absolute http/https URL is         *)
(* answered 400 with success:false, and neither the metadata GET nor any   *)
(* call of the minting collaborator is made for it.                        *)
(***************************************************************************)
C1_MalformedUrlRejected ==
    \A s \in Slots :
        (IsCreate(s) /\ ~IsHttpUrl(request[s].body.metadataUrl)) =>
            /\ Answered(s)
            /\ response[s].status = 400
            /\ response[s].body.success = FALSE
            /\ calls[s].fetch = 0
            /\ locals[s] = NoLocals
            /\ calls[s] = NoCalls

C1_Witness ==
    \E s \in Slots :
        /\ IsCreate(s)
        /\ request[s].body.metadataUrl =
               Str(<<"ftp", ":", "//", "example.com", "/", "metadata.json">>)
        /\ Answered(s)
        /\ response[s].status = 400

(***************************************************************************)
(* C2.  For every fetched document in which one of name, symbol,           *)
(* description, image is absent, not a string, or empty after trimming,    *)
(* createTokenFromMetadataUrl fails before createMint is invoked: the      *)
(* request is answered with an error and no mint is created for it.        *)
(***************************************************************************)
C2_BadDocumentNeverMinted ==
    \A s \in Slots :
        (GotDocument(s) /\ ~WellFormedMetadata(seen[s].document)) =>
            /\ Answered(s)
            /\ response[s].status # 200
            /\ response[s].body.success = FALSE
            /\ NoMintAttempt(s)

C2_Witness ==
    \E s \in Slots :
        /\ GotDocument(s)
        /\ seen[s].document =
               Obj([GoodDocument.o EXCEPT !.symbol = Str(<<" ", "\t">>)])
        /\ Answered(s)
        /\ calls[s].json = 1
        /\ calls[s].createMint = 0

(***************************************************************************)
(* C3.  Every JSON value served by the metadata URL that is not an object  *)
(* carrying non-empty string name, symbol, description and image makes     *)
(* POST /create-token answer 400 with the validation error.                *)
(***************************************************************************)
C3_BadDocumentIs400 ==
    \A s \in Slots :
        (GotDocument(s) /\ ~WellFormedMetadata(seen[s].document)) =>
            /\ Answered(s)
            /\ response[s].status = 400
            /\ Includes(response[s].body.error, <<"Invalid metadata">>)

(***************************************************************************)
(* C4.  When the metadata GET returns a non-2xx response, POST             *)
(* /create-token answers 400 with a message carrying the upstream status   *)
(* code and status text, and no mint is created.                           *)
(***************************************************************************)
C4_Non2xxIs400WithStatus ==
    \A s \in Slots :
        ( /\ IsCreate(s)
          /\ seen[s].fetch.k = "response"
          /\ seen[s].fetch.status \notin 200..299 ) =>
            /\ Answered(s)
            /\ response[s].status = 400
            /\ response[s].body.success = FALSE
            /\ Includes(response[s].body.error,
                        <<ToString(seen[s].fetch.status)>>)
            /\ Includes(response[s].body.error, <<seen[s].fetch.statusText>>)
            /\ calls[s].json = 0
            /\ NoMintAttempt(s)

C4_Witness ==
    \E s \in Slots :
        /\ IsCreate(s)
        /\ seen[s].fetch.k = "response"
        /\ seen[s].fetch.status = 404
        /\ Answered(s)
        /\ response[s].body.error =
               <<"Failed to fetch metadata", ": ", "404", " ", "Not Found">>

(***************************************************************************)
(* C5.  When the metadata GET produces no HTTP response at all (DNS        *)
(* failure, connection refused), POST /create-token answers 400 with the   *)
(* fetch error.                                                            *)
(***************************************************************************)
C5_UnreachableIs400 ==
    \A s \in Slots :
        (IsCreate(s) /\ seen[s].fetch.k = "network") =>
            /\ Answered(s)
            /\ response[s].status = 400

(***************************************************************************)
(* C6.  When the body of the metadata response does not parse as JSON,     *)
(* POST /create-token answers 400 with the parsing error, and no mint is   *)
(* created.                                                                *)
(***************************************************************************)
C6_UnparsableBodyIs400 ==
    \A s \in Slots :
        (IsCreate(s) /\ seen[s].body = "unparsable") =>
            /\ Answered(s)
            /\ response[s].status = 400
            /\ response[s].body.success = FALSE
            /\ Includes(response[s].body.error,
                        <<"invalid json response body at ">>)
            /\ NoMintAttempt(s)

C6_Witness ==
    \E s \in Slots :
        /\ IsCreate(s)
        /\ seen[s].body = "unparsable"
        /\ Answered(s)
        /\ Includes(response[s].body.error, <<"Unexpected end of ">>)

(***************************************************************************)
(* C7.  Every failure raised by the minting collaborator (mint creation or *)
(* metadata attachment), whatever its message, makes POST /create-token    *)
(* answer 500, never 400.                                                  *)
(***************************************************************************)
C7_MintFailureIs500 ==
    \A s \in Slots :
        ( /\ IsCreate(s)
          /\ Answered(s)
          /\ seen[s].createMint = "failed" \/ seen[s].createV1 = "failed" ) =>
            response[s].status = 500

(***************************************************************************)
(* C8.  Every wallet configuration problem met by POST /create-token       *)
(* (file missing, unreadable, not valid JSON, not a valid secret key)      *)
(* yields 500 with the wallet error, never 400.                            *)
(***************************************************************************)
C8_WalletProblemIs500 ==
    \A s \in Slots :
        ( /\ IsCreate(s)
          /\ Answered(s)
          /\ seen[s].wallet \in WalletFiles \ {"keypair"} ) =>
            /\ response[s].status = 500
            /\ response[s].body.error = WalletError(seen[s].wallet).message

(***************************************************************************)
(* C9.  POST /create-token answers 200 with {success:true, data:           *)
(* {mintAddress, transactionSignature, explorerUrl}} exactly when input    *)
(* validation, metadata fetch, metadata validation, mint creation and      *)
(* metadata attachment all succeeded, in that order; data.mintAddress is   *)
(* the address of the mint this request created and data.explorerUrl the   *)
(* devnet explorer address URL of that same address.                       *)
(***************************************************************************)
\* The steps of the request succeeded one after the other, up to the
\* attachment of the metadata.
MintedAndAttached(s) ==
    /\ IsHttpUrl(request[s].body.metadataUrl)
    /\ seen[s].wallet = "keypair"
    /\ seen[s].fetch.k = "response" /\ seen[s].fetch.status \in 200..299
    /\ seen[s].body = "accepted" /\ WellFormedMetadata(seen[s].document)
    /\ seen[s].createMint = "ok"
    /\ seen[s].createV1 = "ok"
    /\ calls[s].fetch = 1 /\ calls[s].json = 1
    /\ calls[s].createMint = 1 /\ calls[s].createV1 = 1

\* The 200 response carries the mint of this request.
CarriesOwnMint(s) ==
    /\ response[s].body.success = TRUE
    /\ DOMAIN response[s].body.data =
           {"mintAddress", "transactionSignature", "explorerUrl"}
    /\ response[s].body.data.mintAddress = <<locals[s].mint>>
    /\ locals[s].mint \in Addresses
    /\ ledger[locals[s].mint].kind = "mint"
    /\ locals[s].mint \in metadataAccounts
    /\ \A o \in Slots \ {s} :
           locals[o].route = "create" => locals[o].mint # locals[s].mint
    /\ response[s].body.data.explorerUrl =
           <<"https://explorer.solana.com/address/">>
               \o response[s].body.data.mintAddress
               \o <<"?cluster=devnet">>

IsRevoke(s) == request[s].route = "POST /revoke-authorities"

\* The flag of the body is what the collaborator got as the option.
PassedOn(flag, option) ==
    /\ flag.t \in {"undefined", "boolean"}
    /\ flag.t = "undefined" => option = TRUE
    /\ flag.t = "boolean" => option = flag.b

C10_OptionsDefaultTrue ==
    \A s \in Slots :
        (IsRevoke(s) /\ calls[s].revokeTokenAuthorities > 0) =>
            /\ calls[s].revokeTokenAuthorities = 1
            /\ PassedOn(request[s].body.revokeMintAuthority,
                        locals[s].options.revokeMintAuthority)
            /\ PassedOn(request[s].body.revokeFreezeAuthority,
                        locals[s].options.revokeFreezeAuthority)

C10_Witness ==
    \E s \in Slots :
        /\ IsRevoke(s)
        /\ request[s].body.revokeMintAuthority = Undefined
        /\ request[s].body.revokeFreezeAuthority = Undefined
        /\ calls[s].revokeTokenAuthorities = 1
        /\ locals[s].options = [revokeMintAuthority |-> TRUE,
                                revokeFreezeAuthority |-> TRUE]
        /\ Answered(s)
        /\ response[s].status = 200
        /\ response[s].body.data.revoked = [mintAuthority |-> TRUE,
                                            freezeAuthority |-> TRUE]

(***************************************************************************)
(* C11.  For a token just created by /create-token (both authorities held  *)
(* by the server wallet), POST /revoke-authorities with flags (m, f)        *)
(* answers 200 with revoked.mintAuthority = m and revoked.freezeAuthority   *)
(* = f, and afterwards exactly the authorities whose flag was true are      *)
(* cleared on the ledger while the others still belong to the wallet.       *)
(* The wallet and the RPC node are taken to work, as the test scripts do.   *)
(***************************************************************************)
FreshMint == MintAccount(WalletKey, WalletKey)

\* The request was answered after it read a mint held by the wallet, and
\* its transaction, if it sent one, met that mint unchanged and was not
\* lost by the RPC node.
RevokedFreshMint(s) ==
    /\ IsRevoke(s)
    /\ Answered(s)
    /\ seen[s].wallet = "keypair"
    /\ seen[s].getParsedAccountInfo = "ok"
    /\ seen[s].mintData = FreshMint
    /\ seen[s].transaction # "failed"
    /\ seen[s].transaction = "landed" => seen[s].before = FreshMint

C11_SelectiveRevocation ==
    \A s \in Slots : \A m, f \in BOOLEAN :
        ( /\ RevokedFreshMint(s)
          /\ request[s].body.revokeMintAuthority = Bool(m)
          /\ request[s].body.revokeFreezeAuthority = Bool(f) ) =>
            /\ response[s].status = 200
            /\ response[s].body.success = TRUE
            /\ response[s].body.data.revoked =
                   [mintAuthority |-> m, freezeAuthority |-> f]
            /\ ledger[locals[s].mintAddress[1]] =
                   MintAccount(IF m THEN NoKey ELSE WalletKey,
                               IF f THEN NoKey ELSE WalletKey)

C11_Witness ==
    \E s \in Slots :
        /\ RevokedFreshMint(s)
        /\ request[s].body.revokeMintAuthority = Bool(TRUE)
        /\ request[s].body.revokeFreezeAuthority = Bool(FALSE)
        /\ seen[s].transaction = "landed"
        /\ response[s].status = 200
        /\ ledger[MintAddress(1)] = MintAccount(NoKey, WalletKey)

(***************************************************************************)
(* C12.  POST /revoke-authorities with revokeMintAuthority:false and       *)
(* revokeFreezeAuthority:false queues zero instructions, submits no        *)
(* transaction, leaves the ledger unchanged, and returns success:true with *)
(* signatures equal to the empty list.                                     *)
(***************************************************************************)
BothFlagsFalse(s) ==
    /\ IsRevoke(s)
    /\ request[s].body.revokeMintAuthority = Bool(FALSE)
    /\ request[s].body.revokeFreezeAuthority = Bool(FALSE)

\* Nothing was queued or sent for the request, and no transaction of it
\* reached the ledger.
NothingSent(s) ==
    /\ calls[s].sendAndConfirmTransaction = 0
    /\ seen[s].transaction = "-"
    /\ locals[s].route = "revoke" => locals[s].instructions = <<>>

EmptySuccess(s) ==
    /\ response[s].status = 200
    /\ response[s].body.success = TRUE
    /\ response[s].body.data.signatures = <<>>

\* The body passed the validation of the handler, the wallet file holds a
\* key pair and the RPC node answered the read of the account.
ReadByRevoker(s) ==
    /\ IsRevoke(s)
    /\ Answered(s)
    /\ seen[s].wallet = "keypair"
    /\ seen[s].getParsedAccountInfo # "failed"

AuthorityTypeOf(x) ==
    IF x = "mintAuthority" THEN "MintTokens" ELSE "FreezeAccount"

\* Connection s carries the call that follows the call in history, with
\* the same body, and the call in history cleared something.
SecondCall(s) ==
    /\ IsRevoke(s)
    /\ history # NoHistory
    /\ request[s].body = history.body
    /\ \E x \in DOMAIN history.cleared : history.cleared[x]

C13_SecondCallRevokesNothing ==
    \A s \in Slots :
        SecondCall(s) =>
            /\ \A x \in DOMAIN history.cleared :
                   history.cleared[x] =>
                       /\ locals[s].revoked[x] = FALSE
                       /\ \A i \in 1..Len(locals[s].instructions) :
                              locals[s].instructions[i].authorityType
                                  # AuthorityTypeOf(x)
            /\ (Answered(s) /\ seen[s].getParsedAccountInfo = "ok") =>
                   /\ response[s].status = 200
                   /\ response[s].body.success = TRUE
                   /\ \A x \in DOMAIN history.cleared :
                          history.cleared[x] =>
                              response[s].body.data.revoked[x] = FALSE

C13_Witness ==
    \E s \in Slots :
        /\ SecondCall(s)
        /\ history.cleared =
               [mintAuthority |-> TRUE, freezeAuthority |-> FALSE]
        /\ Answered(s)
        /\ response[s].status = 200
        /\ response[s].body.data.revoked =
               [mintAuthority |-> FALSE, freezeAuthority |-> FALSE]
        /\ response[s].body.data.signatures = <<>>
        /\ ledger[MintAddress(1)] = MintAccount(NoKey, WalletKey)

(***************************************************************************)
(* C14.  When two POST /revoke-authorities requests for the same mint      *)
(* address run concurrently, in every interleaving one transaction lands   *)
(* first on the ledger and the other request observes the already-revoked  *)
(* state and becomes a no-op: it completes successfully, without an error  *)
(* and without a failed transaction.                                       *)
(***************************************************************************)
C14_LoserOfRaceIsNoOp ==
    \A s \in Racers :
        (IsRevoke(s) /\ Answered(s)) =>
            /\ response[s].status = 200
            /\ response[s].body.success = TRUE
            /\ seen[s].transaction # "failed"

(***************************************************************************)
(* C15.  Each revokeTokenAuthorities call submits at most one transaction  *)
(* containing all instructions it queued, so that the returned signatures  *)
(* list has length 0 or 1; and after the call either every authority it    *)
(* queued is cleared on the ledger or none of them is: the call never      *)
(* leaves one of the authorities it queued cleared and the other set.      *)
(***************************************************************************)
Authorities == {"mintAuthority", "freezeAuthority"}

\* The authorities for which the call holds an instruction.
QueuedFor(s) ==
    {x \in Authorities :
        \E i \in 1..Len(locals[s].instructions) :
            locals[s].instructions[i].authorityType = AuthorityTypeOf(x)}

C15_OneAtomicTransaction ==
    \A s \in Slots :
        (IsRevoke(s) /\ locals[s].route = "revoke") =>
            /\ calls[s].sendAndConfirmTransaction \in {0, 1}
            /\ calls[s].sendAndConfirmTransaction = 1
                   <=> locals[s].instructions # <<>>
            /\ QueuedFor(s) = {x \in Authorities : locals[s].revoked[x]}
            /\ (Answered(s) /\ response[s].status = 200) =>
                   /\ Len(response[s].body.data.signatures)
                          = calls[s].sendAndConfirmTransaction
                   /\ \A x \in QueuedFor(s) :
                          ledger[locals[s].mintAddress[1]][x] = NoKey
            /\ (Answered(s) /\ seen[s].transaction = "landed") =>
                   response[s].status = 200
            /\ (Answered(s) /\ seen[s].transaction = "failed") =>
                   /\ response[s].status = 500
                   /\ ledger[locals[s].mintAddress[1]] = seen[s].before

C15_Witness ==
    \E s \in Slots :
        /\ IsRevoke(s)
        /\ Answered(s)
        /\ locals[s].route = "revoke"
        /\ QueuedFor(s) = Authorities
        /\ seen[s].transaction = "landed"
        /\ Len(response[s].body.data.signatures) = 1
        /\ ledger[MintAddress(1)] = MintAccount(NoKey, NoKey)

(***************************************************************************)
(* C16.  In revokeTokenAuthorities, independently for the mint and the     *)
(* freeze authority: a set-authority-to-null instruction is queued if and  *)
(* only if the requested flag is true, the on-chain authority is non-null, *)
(* and it equals a known signing key (the server wallet, or the optional   *)
(* mint signer); and in a successful result revoked.<x> is true if and     *)
(* only if that instruction was queued.                                    *)
(***************************************************************************)
FlagOf(x) ==
    IF x = "mintAuthority" THEN "revokeMintAuthority"
    ELSE "revokeFreezeAuthority"

\* The keys the call can sign with.
KnownKeys(s) ==
    {WalletKey} \cup
    (IF locals[s].mintSigner # NoSigner THEN {locals[s].mintSigner} ELSE {})

\* The call has read a mint account and gone through its two branches.
Branched(s) ==
    /\ locals[s].route = "revoke"
    /\ seen[s].getParsedAccountInfo = "ok"
    /\ seen[s].mintData.kind = "mint"

C16_QueuedIffRequestedAndOwned ==
    \A s \in Slots : \A x \in Authorities :
        Branched(s) =>
            /\ x \in QueuedFor(s) <=>
                   /\ locals[s].options[FlagOf(x)]
                   /\ seen[s].mintData[x] # NoKey
                   /\ seen[s].mintData[x] \in KnownKeys(s)
            /\ \A i \in 1..Len(locals[s].instructions) :
                   locals[s].instructions[i].currentAuthority
                       \in KnownKeys(s)
            /\ (Answered(s) /\ response[s].status = 200) =>
                   (response[s].body.data.revoked[x] <=> x \in QueuedFor(s))

C16_Witness ==
    \E s \in Slots :
        /\ Branched(s)
        /\ locals[s].mintSigner = ForeignKey
        /\ locals[s].options = [revokeMintAuthority |-> TRUE,
                                revokeFreezeAuthority |-> TRUE]
        /\ seen[s].mintData = MintAccount(ForeignKey, NoKey)
        /\ QueuedFor(s) = {"mintAuthority"}
        /\ Answered(s)
        /\ response[s].status = 200
        /\ response[s].body.data.revoked =
               [mintAuthority |-> TRUE, freezeAuthority |-> FALSE]
        /\ ledger[MintAddress(1)] = MintAccount(NoKey, NoKey)

(***************************************************************************)
(* C17.  Partial-success policy: when a flag is true but the current       *)
(* on-chain authority matches no known signing key, revokeTokenAuthorities *)
(* reports revoked.<x> = false for that authority, queues nothing for it,  *)
(* and still returns success:true (HTTP 200) provided the transaction for  *)
(* the other authority, if any, did not fail.                              *)
(***************************************************************************)
\* The call was asked to revoke x, which a key it does not hold owns.
NotOurs(s, x) ==
    /\ IsRevoke(s)
    /\ Branched(s)
    /\ locals[s].options[FlagOf(x)]
    /\ seen[s].mintData[x] # NoKey
    /\ seen[s].mintData[x] \notin KnownKeys(s)

C17_ForeignAuthorityIsSkipped ==
    \A s \in Slots : \A x \in Authorities :
        NotOurs(s, x) =>
            /\ locals[s].revoked[x] = FALSE
            /\ x \notin QueuedFor(s)
            /\ ledger[locals[s].mintAddress[1]][x] = seen[s].mintData[x]
            /\ (Answered(s) /\ seen[s].transaction # "failed") =>
                   /\ response[s].status = 200
                   /\ response[s].body.success = TRUE
                   /\ response[s].body.data.revoked[x] = FALSE

C17_Witness ==
    \E s \in Slots :
        /\ NotOurs(s, "mintAuthority")
        /\ locals[s].options.revokeFreezeAuthority
        /\ seen[s].mintData = MintAccount(ForeignKey, WalletKey)
        /\ Answered(s)
        /\ seen[s].transaction = "landed"
        /\ response[s].status = 200
        /\ response[s].body.data.revoked =
               [mintAuthority |-> FALSE, freezeAuthority |-> TRUE]
        /\ ledger[SharedMint] = MintAccount(ForeignKey, NoKey)

(***************************************************************************)
(* C18.  For every POST /revoke-authorities request whose mintAddress is   *)
(* missing or not a string, or whose revokeMintAuthority or                *)
(* revokeFreezeAuthority is present but not a boolean, the response is 400 *)
(* with success:false and the revocation collaborator is never invoked: no *)
(* ledger read, no transaction.                                            *)
(***************************************************************************)
PresentNotBoolean(flag) == flag.t \notin {"undefined", "boolean"}

MalformedRevokeBody(body) ==
    \/ body.mintAddress.t # "string"
    \/ PresentNotBoolean(body.revokeMintAuthority)
    \/ PresentNotBoolean(body.revokeFreezeAuthority)

C18_MalformedBodyRejected ==
    \A s \in Slots :
        (IsRevoke(s) /\ MalformedRevokeBody(request[s].body)) =>
            /\ Answered(s)
            /\ response[s].status = 400
            /\ response[s].body.success = FALSE
            /\ calls[s].revokeTokenAuthorities = 0
            /\ calls[s].getParsedAccountInfo = 0
            /\ calls[s].sendAndConfirmTransaction = 0
            /\ seen[s] = NothingSeen
            /\ locals[s] = NoLocals

C18_Witness ==
    \E s \in Slots :
        /\ IsRevoke(s)
        /\ request[s].body.mintAddress = Str(<<MintAddress(1)>>)
        /\ request[s].body.revokeMintAuthority = Bool(TRUE)
        /\ request[s].body.revokeFreezeAuthority = Null
        /\ Answered(s)
        /\ response[s].status = 400
        /\ response[s].body.error =
               <<"revokeFreezeAuthority must be a boolean">>
        /\ ledger[MintAddress(1)] = MintAccount(WalletKey, WalletKey)

(***************************************************************************)
(* C19.  For every POST /revoke-authorities request that passes            *)
(* validation, the response is 200 with data {mintAddress (echoing the     *)
(* request), signatures, revoked, message} when the collaborator returns   *)
(* success:true, and otherwise 500 with success:false and the              *)
(* collaborator's error string; no validated request ends in any other     *)
(* status.                                                                 *)
(***************************************************************************)
\* The request passed the validation of the handler and has been answered.
ValidatedAndAnswered(s) ==
    /\ IsRevoke(s)
    /\ Answered(s)
    /\ request[s].body.mintAddress.t = "string"
    /\ request[s].body.mintAddress.s # <<>>
    /\ ~PresentNotBoolean(request[s].body.revokeMintAuthority)
    /\ ~PresentNotBoolean(request[s].body.revokeFreezeAuthority)

\* What the collaborator reports of a thrown value.
Reported(thrown) == IF thrown.t = "error" THEN thrown.message ELSE thrown.s

\* The error strings the collaborator can have returned, given where its
\* call stopped.
CollaboratorErrors(s) ==
    IF seen[s].wallet # "keypair"
    THEN {WalletError(seen[s].wallet).message}
    ELSE IF seen[s].getParsedAccountInfo = "-"
    THEN {<<"Invalid public key input">>}
    ELSE IF seen[s].getParsedAccountInfo = "failed"
    THEN {Reported(f) : f \in SdkFailures}
    ELSE IF seen[s].mintData.kind # "mint"
    THEN {<<"Could not fetch mint information">>}
    ELSE IF seen[s].transaction = "failed"
    THEN {Reported(f) : f \in SdkFailures \cup {OwnerMismatch}}
    ELSE {}

C19_ValidatedIs200Or500 ==
    \A s \in Slots :
        ValidatedAndAnswered(s) =>
            /\ calls[s].revokeTokenAuthorities = 1
            /\ response[s].status \in {200, 500}
            /\ response[s].status = 200 <=> CollaboratorErrors(s) = {}
            /\ response[s].status = 200 =>
                   /\ response[s].body.success = TRUE
                   /\ DOMAIN response[s].body.data =
                          {"mintAddress", "signatures", "revoked", "message"}
                   /\ response[s].body.data.mintAddress =
                          request[s].body.mintAddress.s
                   /\ response[s].body.data.revoked = locals[s].revoked
                   /\ response[s].body.data.message =
                          <<"Authority revocation completed">>
            /\ response[s].status = 500 =>
                   /\ response[s].body.success = FALSE
                   /\ response[s].body.error \in CollaboratorErrors(s)

C19_Witness ==
    \E s \in Slots :
        /\ ValidatedAndAnswered(s)
        /\ seen[s].getParsedAccountInfo = "failed"
        /\ response[s].status = 500
        /\ response[s].body = [success |-> FALSE, error |-> <<"rejected">>]

(***************************************************************************)
(* C20.  GET /health always responds 200 with status "OK" and an ISO       *)
(* timestamp, for every request and in every state of the server, the      *)
(* wallet, the ledger and any other in-flight or failed request.           *)
(***************************************************************************)
IsHealth(s) == request[s].route = "GET /health"

\* The number a field of the timestamp stands for, or -1.
FieldValue(Pad(_), token, low, high) ==
    IF \E n \in low..high : Pad(n) = token
    THEN CHOOSE n \in low..high : Pad(n) = token
    ELSE -1

\* The day, counted from 1970-01-01, of a UTC calendar date.
DaysFromCivil(year, month, day) ==
    LET y == IF month <= 2 THEN year - 1 ELSE year
        era == y \div 400
        yoe == y - era * 400
        doy == (153 * (IF month > 2 THEN month - 3 ELSE month + 9) + 2)
                   \div 5 + day - 1
        doe == yoe * 365 + yoe \div 4 - yoe \div 100 + doy
    IN  era * 146097 + doe - 719468

\* Date.parse of YYYY-MM-DDTHH:mm:ss.sssZ: the instant, or NaN.
NaN == [sec |-> -1, ms |-> -1]

DateParse(text) ==
    IF \/ Len(text) # 14
       \/ <<text[2], text[4], text[6], text[8], text[10], text[12],
            text[14]>> # <<"-", "-", "T", ":", ":", ".", "Z">>
    THEN NaN
    ELSE LET year == FieldValue(Pad4, text[1], 1970, 2037)
             month == FieldValue(Pad2, text[3], 1, 12)
             day == FieldValue(Pad2, text[5], 1, 31)
             hours == FieldValue(Pad2, text[7], 0, 23)
             minutes == FieldValue(Pad2, text[9], 0, 59)
             seconds == FieldValue(Pad2, text[11], 0, 59)
             millis == FieldValue(Pad3, text[13], 0, 999)
         IN  IF -1 \in {year, month, day, hours, minutes, seconds, millis}
             THEN NaN
             ELSE [sec |-> DaysFromCivil(year, month, day) * 86400
                              + hours * 3600 + minutes * 60 + seconds,
                   ms |-> millis]

\* The answer is 200 with status OK and the time of the request in ISO form.
HealthyAnswer(s) ==
    /\ response[s].status = 200
    /\ DOMAIN response[s].body = {"status", "timestamp"}
    /\ response[s].body.status = "OK"
    /\ DateParse(response[s].body.timestamp) = request[s].at

\* Whatever the other connections, the wallet and the ledger are at, a free
\* connection gets its probe answered.
ProbeIsServed ==
    Free(Probe) => ENABLED (\E now \in Instants : Health(Probe, now, "none"))

Turned(s) == Answered(s) /\ request[s].route \in {"cors", "error", "*"}

\* The method and path are, to the letter, those of a documented endpoint.
Listed(method, path) ==
    \/ method = "GET" /\ path = <<"/", "health">>
    \/ method = "POST" /\ path = <<"/", "create-token">>
    \/ method = "POST" /\ path = <<"/", "revoke-authorities">>

\* The method and path are served by a route of the app.
ServedByRoute(method, path) ==
    \/ /\ method \in {"GET", "HEAD"}
       /\ path \in {<<"/", "health">>, <<"/", "health", "/">>,
                    <<"/", "Health">>, <<"/", "Health", "/">>}
    \/ /\ method = "POST"
       /\ path \in {<<"/", "create-token">>, <<"/", "revoke-authorities">>}

Is404(s) ==
    /\ response[s].status = 404
    /\ response[s].body = [success |-> FALSE, error |-> <<"Endpoint not found">>]

BodyRejected(s) ==
    /\ Answered(s)
    /\ request[s].route \in {"error", "GET /health"}
    /\ request[s].rawBody = "malformed"

\* C22: a request whose JSON body cannot be parsed by the body parser is
\* answered with status 400.
C22_MalformedJsonIs400 ==
    \A s \in DOMAIN pc : BodyRejected(s) => response[s].status = 400

(***************************************************************************)
(* C23. The global error handler.                                          *)
(***************************************************************************)
\* C23: an exception raised in the middleware (the JSON body parser is the
\* one place where the app raises outside a try block) is answered by the
\* global error handler with 500 and the generic message "Internal server
\* error"; the body carries the stack when NODE_ENV is development, and no
\* response of the service carries details when it is anything else.
C23_CatchAllIs500StackInDevelopmentOnly ==
    \A s \in DOMAIN pc :
        /\ BodyRejected(s) =>
             /\ response[s].status = 500
             /\ response[s].body.success = FALSE
             /\ response[s].body.error = <<"Internal server error">>
             /\ NODE_ENV = "development" =>
                  response[s].body.details = Str(<<"stack of ", "SyntaxError">>)
        /\ (Answered(s) /\ NODE_ENV # "development"
              /\ "details" \in DOMAIN response[s].body)
               => response[s].body.details = Undefined

\* Not in development and not in production either: a request to
\* /create-token with a body that does not parse got the generic 500
\* without a stack.
C23_Witness ==
    \E s \in DOMAIN pc :
        /\ BodyRejected(s)
        /\ NODE_ENV = "test"
        /\ request[s].route = "error"
        /\ request[s].method = "POST"
        /\ request[s].path = <<"/", "create-token">>
        /\ response[s] = [status |-> 500,
                          body |-> [success |-> FALSE,
                                    error |-> <<"Internal server error">>,
                                    details |-> Undefined]]

(***************************************************************************)
(* C24. The error envelope.                                                *)
(***************************************************************************)
IsText(v) == v \in Seq(STRING)

\* { success: false, error: <string>, details?: <string> }
Envelope(body) ==
    /\ {"success", "error"} \subseteq DOMAIN body
    /\ DOMAIN body \subseteq {"success", "error", "details"}
    /\ body.success = FALSE
    /\ IsText(body.error)
    /\ "details" \in DOMAIN body =>
         \/ body.details = Undefined
         \/ body.details.t = "string" /\ IsText(body.details.s)

OkHasSuccessTrue(s) ==
    (/\ response[s].status = 200
     /\ request[s].route \in {"POST /create-token", "POST /revoke-authorities"})
        => response[s].body.success = TRUE

StepsAfter(step) ==
    CASE step = "wallet" ->
           {"fetch", "json", "createMint", "createV1", "getParsedAccountInfo",
            "sendAndConfirmTransaction"}
      [] step = "fetch" ->
           {"json", "createMint", "createV1", "getParsedAccountInfo"}
      [] step = "json" -> {"createMint", "createV1", "getParsedAccountInfo"}
      [] step = "createMint" -> {"createV1", "getParsedAccountInfo"}
      [] step = "createV1" -> {"getParsedAccountInfo"}
      [] step = "getParsedAccountInfo" -> {"sendAndConfirmTransaction"}
      [] step = "sendAndConfirmTransaction" -> {}

\* The steps of the request that have failed.
FailedSteps(s) ==
    {step \in {"wallet", "fetch", "json", "createMint", "createV1",
               "getParsedAccountInfo", "sendAndConfirmTransaction"} :
       CASE step = "wallet" -> seen[s].wallet \notin {"-", "keypair"}
         [] step = "fetch" ->
              \/ seen[s].fetch.k = "network"
              \/ /\ seen[s].fetch.k = "response"
                 /\ seen[s].fetch.status \notin 200..299
         [] step = "json" -> seen[s].body \in {"unparsable", "rejected"}
         [] step = "createMint" -> seen[s].createMint = "failed"
         [] step = "createV1" -> seen[s].createV1 = "failed"
         [] step = "getParsedAccountInfo" ->
              seen[s].getParsedAccountInfo = "failed"
         [] step = "sendAndConfirmTransaction" ->
              seen[s].transaction = "failed"}

\* C25: one request makes at most one metadata GET, one mint-creation call,
\* one metadata-attachment call and one transaction submission; and once a
\* step has failed the request is answered with an error and no later step
\* has been called.
C25_NothingIsRetried ==
    \A s \in DOMAIN pc :
        /\ calls[s].fetch <= 1
        /\ calls[s].createMint <= 1
        /\ calls[s].createV1 <= 1
        /\ calls[s].sendAndConfirmTransaction <= 1
        /\ \A step \in FailedSteps(s) :
               /\ Answered(s)
               /\ response[s].status >= 400
               /\ \A later \in StepsAfter(step) : calls[s][later] = 0

\* The attachment of the metadata failed after the mint was created: each
\* step was called once and the account was not read back.
C25_Witness ==
    \E s \in DOMAIN pc :
        /\ FailedSteps(s) = {"createV1"}
        /\ Answered(s)
        /\ calls[s].fetch = 1
        /\ calls[s].createMint = 1
        /\ calls[s].createV1 = 1
        /\ calls[s].getParsedAccountInfo = 0

(***************************************************************************)
(* C26. Revocation is irreversible.                                        *)
(***************************************************************************)
\* C26: no step of any request, alone or next to others, takes a mint
\* account away or gives an authority of an existing mint a value other
\* than the one it has or none; so an authority that is empty stays empty.
C26_RevocationIsIrreversible ==
    [][ \A a \in DOMAIN ledger :
          ledger[a].kind = "mint" =>
              /\ ledger'[a].kind = "mint"
              /\ \A x \in {"mintAuthority", "freezeAuthority"} :
                     /\ ledger'[a][x] \in {ledger[a][x], NoKey}
                     /\ ledger[a][x] = NoKey => ledger'[a][x] = NoKey ]_vars

\* The mint authority of a created mint was revoked by a request that has
\* been answered, while a request to /create-token has its mint on the
\* ledger and is still in flight.
C26_Witness ==
    \E s, o \in DOMAIN pc :
        /\ s # o
        /\ Answered(s)
        /\ seen[s].transaction = "landed"
        /\ seen[s].before.mintAuthority = WalletKey
        /\ ledger[locals[s].mintAddress[1]].mintAuthority = NoKey
        /\ pc[o] = "createV1"
        /\ ledger[locals[o].mint].kind = "mint"

(***************************************************************************)
(* C27. The script that creates a token and then revokes its authorities.  *)
(***************************************************************************)
\* The server answered the request 200 with success true.
Succeeded(reply) ==
    /\ reply.k = "response"
    /\ reply.status = 200
    /\ reply.body.success = TRUE

\* C27: the script posts to /revoke-authorities only after /create-token
\* answered with success; when the creation failed it returns
\* {success:false, step:'create'} and has posted nothing else; when the
\* creation succeeded and the revocation failed it returns {success:false,
\* step:'revoke'} with the mint address and explorer URL of the created
\* mint, which is on the ledger; it returns success:true only when both
\* requests succeeded.
C27_RevokeOnlyAfterCreate ==
    /\ client.pc \in {"start", "create"} => client.posted \in {<<>>, <<"create">>}
    /\ client.posted = <<"create", "revoke">> => Succeeded(client.createReply)
    /\ client.pc = "returned" =>
         IF ~Succeeded(client.createReply)
         THEN /\ client.returned.success = FALSE
              /\ client.returned.step = "create"
              /\ client.posted = <<"create">>
              /\ client.revokeReply = NoReply
         ELSE IF ~Succeeded(client.revokeReply)
         THEN /\ client.returned.success = FALSE
              /\ client.returned.step = "revoke"
              /\ client.returned.mintAddress =
                     client.createReply.body.data.mintAddress
              /\ client.returned.explorerUrl =
                     ExplorerUrl(client.createReply.body.data.mintAddress[1])
              /\ ledger[client.returned.mintAddress[1]].kind = "mint"
              /\ client.posted = <<"create", "revoke">>
         ELSE /\ client.returned.success = TRUE
              /\ client.posted = <<"create", "revoke">>

\* The creation succeeded, the revocation was answered with an error, and
\* the script returned step 'revoke' with the address of the mint.
C27_Witness ==
    /\ client.pc = "returned"
    /\ Succeeded(client.createReply)
    /\ client.revokeReply.k = "response"
    /\ client.revokeReply.status = 500
    /\ client.returned.success = FALSE
    /\ client.returned.step = "revoke"
    /\ client.returned.mintAddress = <<"Mint1">>

(***************************************************************************)
(* C28. A creation that fails after the mint exists.                       *)
(***************************************************************************)
\* createMint succeeded and the attachment of the metadata failed.
AttachmentFailed(s) ==
    /\ IsCreate(s)
    /\ seen[s].createMint = "ok"
    /\ seen[s].createV1 = "failed"

\* C28: when createMint succeeded and the attachment of the metadata failed,
\* the request is answered with an error whose body carries no data and no
\* mint address, and the mint of the request is on the ledger with the
\* wallet as mint and freeze authority and without a metadata account:
\* nothing is rolled back.
C28_FailedCreateLeavesMint ==
    \A s \in DOMAIN pc :
        AttachmentFailed(s) =>
            /\ Answered(s)
            /\ response[s].status \in {400, 500}
            /\ response[s].body.success = FALSE
            /\ DOMAIN response[s].body = {"success", "error", "details"}
            /\ ~Includes(response[s].body.error, <<locals[s].mint>>)
            /\ ledger[locals[s].mint].kind = "mint"
            /\ ledger[locals[s].mint].mintAuthority = WalletKey
            /\ ledger[locals[s].mint].freezeAuthority = WalletKey
            /\ locals[s].mint \notin metadataAccounts

\* The attachment failed, the answer is 500, and the ledger is no longer as
\* it was before the request: the mint is there.
C28_Witness ==
    \E s \in DOMAIN pc :
        /\ AttachmentFailed(s)
        /\ Answered(s)
        /\ response[s].status = 500
        /\ locals[s].mint = "Mint1"
        /\ ledger["Mint1"].kind = "mint"
        /\ ledger["Mint1"].mintAuthority = WalletKey

(***************************************************************************)
(* C29. revokeTokenAuthorities returns its failures.                       *)
(***************************************************************************)
\* What can be thrown inside revokeTokenAuthorities.
RevokeThrowables ==
    {WalletError(w) : w \in WalletFiles \ {"keypair"}}
    \cup {InvalidPublicKey, NoMintInformation, OwnerMismatch}
    \cup SdkFailures

\* C29: whatever is thrown inside revokeTokenAuthorities, the call settles
\* with the value {success:false, error} and nothing else in it; and every
\* validated request whose call failed was answered by the branch of the
\* handler for a returned failure, with the error of that value, never by
\* the handler's catch block.
C29_RevokeNeverThrows ==
    /\ \A e \in RevokeThrowables :
           /\ revokeTokenAuthoritiesCatch(e).k = "returned"
           /\ revokeTokenAuthoritiesCatch(e).value =
                  [success |-> FALSE, error |-> Reported(e)]
    /\ \A s \in DOMAIN pc :
           (ValidatedAndAnswered(s) /\ CollaboratorErrors(s) # {}) =>
               /\ response[s].status = 500
               /\ response[s].body.success = FALSE
               /\ DOMAIN response[s].body = {"success", "error"}
               /\ response[s].body.error \in CollaboratorErrors(s)
               /\ response[s].body.error # <<"An unexpected error occurred">>

\* The transaction was rejected with a value that is no Error, and the
\* answer carries String(error).
C29_Witness ==
    \E s \in DOMAIN pc :
        /\ ValidatedAndAnswered(s)
        /\ seen[s].transaction = "failed"
        /\ response[s] = [status |-> 500,
                          body |-> [success |-> FALSE,
                                    error |-> <<"rejected">>]]

(***************************************************************************)
(* C30. retryOperation.                                                    *)
(***************************************************************************)
\* The attempts that have failed so far.
FailedAttempts == {i \in DOMAIN client.outcomes : ~client.outcomes[i].ok}

\* C30: the operation is invoked at most maxRetries times and never while a
\* previous invocation is pending; the call returns the value of the first
\* attempt that succeeds, with no attempt after it; when maxRetries attempts
\* have failed it throws the error of the last one; and there is one wait
\* after each failed attempt but the last of the maxRetries.
C30_RetryOperation ==
    /\ client.invoked <= client.maxRetries
    /\ client.running \in {0, 1}
    /\ client.running = 1 <=> client.pc = "operation"
    /\ client.invoked = Len(client.outcomes) + client.running
    /\ \A i \in DOMAIN client.outcomes :
           client.outcomes[i].ok =>
               /\ i = Len(client.outcomes)
               /\ client.pc = "returned"
    /\ client.pc = "returned" =>
           /\ client.outcomes # <<>>
           /\ client.outcomes[Len(client.outcomes)].ok
           /\ client.settled =
                  [k |-> "returned",
                   value |-> client.outcomes[Len(client.outcomes)].value]
    /\ client.pc = "thrown" =>
           /\ Len(client.outcomes) = client.maxRetries
           /\ FailedAttempts = 1..client.maxRetries
           /\ client.settled.k = "threw"
           /\ client.maxRetries >= 1 =>
                  client.settled.error =
                      client.outcomes[client.maxRetries].error
    /\ \A i \in DOMAIN client.waits :
           /\ client.waits[i].after = i
           /\ i \in FailedAttempts
           /\ i < client.maxRetries
    /\ Len(client.waits) = Cardinality(FailedAttempts \ {client.maxRetries})

\* Three attempts failed, with two waits between them, and the error of the
\* third was thrown.
C30_Witness ==
    /\ client.pc = "thrown"
    /\ client.maxRetries = 3
    /\ client.invoked = 3
    /\ Len(client.waits) = 2
    /\ client.settled = [k |-> "threw", error |-> client.outcomes[3].error]
    /\ client.outcomes[3].error # client.outcomes[2].error

====
